---------------------------- MODULE Spec2Model ----------------------------
(***************************************************************************)
(* Model of the tree structure (TreeTemplate) and of the double-recursive  *)
(* parsimony engine (DRTreeParsimonyScore) of bpp-phyl.                    *)
(*                                                                         *)
(* A tree is a record of the fields of its nodes: father and sons links,   *)
(* ids, branch lengths and branch properties, plus the root pointer.  The  *)
(* nodes are the slots 1..MaxNodes; a slot that is not linked to the tree  *)
(* is free memory and holds default field values.                          *)
(***************************************************************************)
EXTENDS Integers, Sequences, FiniteSets, TLC

\* ------------------------------------------------------------------ bounds
MaxNodes == 8
MaxId == 7
NbStates == 2
MaxEdits == 2
MaxNNI == 1
MaxPos == 2

\* The null pointer (father_ of the root, result of a failed search).
Null == 0

Nodes == 1 .. MaxNodes
IdRange == 0 .. MaxId
States == 0 .. (NbStates - 1)

VARIABLES
  root,      \* TreeTemplate::root_
  father,    \* Node::father_     (Null for the root and for free slots)
  sons,      \* Node::sons_       (ordered)
  id,        \* Node::id_
  dist,      \* Node::distanceToFather_ : <<>> when absent, <<d>> when set
  bprop,     \* Node::branchProperties_ (one property name): <<>> or <<v>>
  leafBits,  \* DRTreeParsimonyData leaf data: id -> bitset per pattern
  cache,     \* DRTreeParsimonyNodeData: id -> neighbour id -> per pattern [b, s]
  rootArr,   \* DRTreeParsimonyData root bitsets and scores, per pattern
  weights,   \* DRTreeParsimonyData::getWeight, per pattern
  fatherFirst, \* order of Node::getNeighbors(): father before the sons, or after
  last,      \* the last call made on the object and its outcome
  chain,     \* progress of a testNNI / doNNI / computeScores sequence
  nbEdits,   \* number of calls that changed the tree so far
  modelSet,  \* the MixedSubstitutionModelSet the likelihood object was built on
  lik        \* the main RNonHomogeneousMixedTreeLikelihood and all it owns

vars == <<root, father, sons, id, dist, bprop, leafBits, cache, rootArr, weights,
          fatherFirst, last, chain, nbEdits, modelSet, lik>>

\* ------------------------------------------------------------- generalities
Range(s) == {s[i] : i \in 1 .. Len(s)}

RECURSIVE SeqSum(_)
SeqSum(s) == IF s = <<>> THEN 0 ELSE Head(s) + SeqSum(Tail(s))

Min(S) == CHOOSE x \in S : \A y \in S : x <= y

\* The tree held by the variables, as one record.
T == [root |-> root, father |-> father, sons |-> sons, id |-> id,
      dist |-> dist, bprop |-> bprop]

SetTree(t) ==
  /\ root' = t.root
  /\ father' = t.father
  /\ sons' = t.sons
  /\ id' = t.id
  /\ dist' = t.dist
  /\ bprop' = t.bprop

treeVars == <<root, father, sons, id, dist, bprop>>
parsVars == <<leafBits, cache, rootArr, weights>>
mixVars == <<modelSet, lik>>

\* --------------------------------------------------------------------- Node
HasFather(t, n) == t.father[n] # Null
GetNumberOfSons(t, n) == Len(t.sons[n])
\* Node::getSon(pos), pos counted from 0 as in the code.
GetSon(t, n, pos) == t.sons[n][pos + 1]
Degree(t, n) == GetNumberOfSons(t, n) + (IF HasFather(t, n) THEN 1 ELSE 0)
\* Node::isLeaf(): a node with no sons.
IsLeaf(t, n) == GetNumberOfSons(t, n) = 0
HasDistanceToFather(t, n) == t.dist[n] # <<>>
GetDistanceToFather(t, n) == t.dist[n][1]

\* Node::getSonPosition(son), counted from 0.
GetSonPosition(t, n, son) ==
  (CHOOSE i \in 1 .. Len(t.sons[n]) : t.sons[n][i] = son) - 1

\* Node::getNeighbors(): the father (if any) and the sons.
GetNeighbors(t, n, ff) ==
  LET f == IF HasFather(t, n) THEN <<t.father[n]>> ELSE <<>>
  IN  IF ff THEN f \o t.sons[n] ELSE t.sons[n] \o f

RemoveFirst(s, x) ==
  IF x \in Range(s)
  THEN LET k == Min({i \in 1 .. Len(s) : s[i] = x})
       IN  SubSeq(s, 1, k - 1) \o SubSeq(s, k + 1, Len(s))
  ELSE s

\* Node::removeSon(node): erase node from the son list, clear its father.
RemoveSon(t, p, n) ==
  [t EXCEPT !.sons[p] = RemoveFirst(@, n), !.father[n] = Null]

\* Node::addSon(node): append unless already registered, set its father.
AddSon(t, p, n) ==
  [t EXCEPT !.sons[p] = IF n \in Range(@) THEN @ ELSE Append(@, n),
            !.father[n] = p]

\* Node::removeSons(): remove every son.
RemoveSons(t, p) ==
  [t EXCEPT !.sons[p] = <<>>,
            !.father = [m \in Nodes |-> IF m \in Range(t.sons[p]) THEN Null
                                         ELSE t.father[m]]]

\* Node::swap(branch1, branch2): the sons at the two positions change places.
SwapSons(t, p, i1, i2) ==
  [t EXCEPT !.sons[p] = [k \in 1 .. Len(@) |->
                           IF k = i1 + 1 THEN @[i2 + 1]
                           ELSE IF k = i2 + 1 THEN @[i1 + 1] ELSE @[k]]]

\* delete node: the slot is free memory again.
DeleteNode(t, n) ==
  [t EXCEPT !.father[n] = Null, !.sons[n] = <<>>, !.id[n] = 0,
            !.dist[n] = <<>>, !.bprop[n] = <<>>]

\* -------------------------------------------------------- TreeTemplateTools
RECURSIVE GetNodes(_, _), GetNodesOf(_, _)
\* TreeTemplateTools::getNodes: the subtree's nodes, sons before their father.
GetNodes(t, n) == GetNodesOf(t, t.sons[n]) \o <<n>>
GetNodesOf(t, s) ==
  IF s = <<>> THEN <<>> ELSE GetNodes(t, Head(s)) \o GetNodesOf(t, Tail(s))

RECURSIVE PreOrder(_, _), PreOrderOf(_, _)
PreOrder(t, n) == <<n>> \o PreOrderOf(t, t.sons[n])
PreOrderOf(t, s) ==
  IF s = <<>> THEN <<>> ELSE PreOrder(t, Head(s)) \o PreOrderOf(t, Tail(s))

TreeNodes(t) == Range(GetNodes(t, t.root))
GetNodesId(t) ==
  LET nodes == GetNodes(t, t.root) IN [i \in 1 .. Len(nodes) |-> t.id[nodes[i]]]

\* TreeTemplateTools::searchNodeWithId: every node of the tree with this id.
SearchNodeWithId(t, i) ==
  LET all == PreOrder(t, t.root) IN SelectSeq(all, LAMBDA n : t.id[n] = i)

\* TreeTemplateTools::searchFirstNodeWithId: the first one met, or null.
SearchFirstNodeWithId(t, i) ==
  LET found == SearchNodeWithId(t, i)
  IN  IF found = <<>> THEN Null ELSE Head(found)

RECURSIVE PathFromRoot(_, _)
\* TreeTemplateTools::getPathBetweenAnyTwoNodes(root, n): root, ..., n.
PathFromRoot(t, n) ==
  IF ~HasFather(t, n) THEN <<n>> ELSE Append(PathFromRoot(t, t.father[n]), n)

\* TreeTemplateTools::getRemainingNeighbors(n1, n2, n3).
GetRemainingNeighbors(t, n1, n2, n3, ff) ==
  SelectSeq(GetNeighbors(t, n1, ff), LAMBDA n : n # n2 /\ n # n3)

\* TreeTools::getMPNUId: the least id >= 0 that no node of the tree uses.
GetMPNUId(t) ==
  Min({i \in 0 .. MaxNodes : \A n \in TreeNodes(t) : t.id[n] # i})

\* ------------------------------------------------------------- TreeTemplate
IsRooted(t) == GetNumberOfSons(t, t.root) = 2

\* A faulty variant of UnrootMerge: the length of son1 replaces that of son2.
UnrootMergeNoSum(t) ==
  LET son1 == GetSon(t, t.root, 0)
      son2 == GetSon(t, t.root, 1)
      t1 == IF HasDistanceToFather(t, son1)
            THEN [t EXCEPT !.dist[son2] = <<GetDistanceToFather(t, son1)>>,
                           !.dist[son1] = <<>>]
            ELSE t
      t2 == RemoveSons(t1, t1.root)
      t3 == AddSon(t2, son1, son2)
      t4 == DeleteNode(t3, t3.root)
  IN  [t4 EXCEPT !.root = son1, !.father[son1] = Null]

\* TreeTemplate::unroot, body of the else branch once son1 is a subtree.
UnrootMerge(t) ==
  LET son1 == GetSon(t, t.root, 0)
      son2 == GetSon(t, t.root, 1)
      t1 == IF HasDistanceToFather(t, son1)
            THEN [t EXCEPT !.dist[son2] =
                             IF HasDistanceToFather(t, son2)
                             THEN <<GetDistanceToFather(t, son1)
                                    + GetDistanceToFather(t, son2)>>
                             ELSE <<GetDistanceToFather(t, son1)>>,
                           !.dist[son1] = <<>>]
            ELSE t
      t2 == RemoveSons(t1, t1.root)
      t3 == AddSon(t2, son1, son2)
      t4 == DeleteNode(t3, t3.root)
  IN  \* setRootNode(son1)
      [t4 EXCEPT !.root = son1, !.father[son1] = Null]

\* A faulty variant of Unroot: no exception on a tree that is not rooted.
UnrootSilent(t) ==
  IF ~IsRooted(t) THEN [t |-> t, res |-> "false"]
  ELSE IF IsLeaf(t, GetSon(t, t.root, 0)) /\ IsLeaf(t, GetSon(t, t.root, 1))
       THEN [t |-> t, res |-> "false"]
       ELSE LET t1 == IF IsLeaf(t, GetSon(t, t.root, 0))
                      THEN SwapSons(t, t.root, 0, 1) ELSE t
            IN  [t |-> UnrootMerge(t1), res |-> "true"]

\* A faulty variant of Unroot: a root with two leaves is collapsed too.
UnrootCollapsing(t) ==
  IF ~IsRooted(t) THEN [t |-> t, res |-> "UnrootedTreeException"]
  ELSE LET t1 == IF IsLeaf(t, GetSon(t, t.root, 0))
                 THEN SwapSons(t, t.root, 0, 1) ELSE t
       IN  [t |-> UnrootMerge(t1), res |-> "true"]

\* TreeTemplate::unroot: the tree afterwards and what the call gave
\* ("true", "false", or the exception thrown).
Unroot(t) ==
  IF ~IsRooted(t) THEN [t |-> t, res |-> "UnrootedTreeException"]
  ELSE IF IsLeaf(t, GetSon(t, t.root, 0)) /\ IsLeaf(t, GetSon(t, t.root, 1))
       THEN [t |-> t, res |-> "false"]
       ELSE LET t1 == IF IsLeaf(t, GetSon(t, t.root, 0))
                      THEN SwapSons(t, t.root, 0, 1) ELSE t
            IN  [t |-> UnrootMerge(t1), res |-> "true"]

RECURSIVE RootAtLoop(_, _, _)
\* TreeTemplate::rootAt, the loop over the path, from index i (counted from 1).
RootAtLoop(t, path, i) ==
  IF i >= Len(path) THEN t
  ELSE LET a == path[i]
           b == path[i + 1]
           t1 == [t EXCEPT !.dist[a] = IF HasDistanceToFather(t, b)
                                        THEN t.dist[b] ELSE <<>>]
           t1b == RemoveSon(t1, a, b)
           t2 == AddSon(t1b, b, a)
           t3 == [t2 EXCEPT !.bprop[a] = IF t2.bprop[b] # <<>> THEN t2.bprop[b]
                                         ELSE @,
                            !.bprop[b] = <<>>]
       IN  RootAtLoop(t3, path, i + 1)

\* A faulty variant of RootAt: root_ is not moved to newRoot.
RootAtKeepRoot(t, newRoot) ==
  IF t.root = newRoot THEN t
  ELSE LET t0 == IF IsRooted(t) THEN Unroot(t).t ELSE t
           path == PathFromRoot(t0, newRoot)
           t1 == RootAtLoop(t0, path, 1)
       IN  [t1 EXCEPT !.dist[newRoot] = <<>>, !.bprop[newRoot] = <<>>]

\* TreeTemplate::rootAt(N* newRoot).
RootAt(t, newRoot) ==
  IF t.root = newRoot THEN t
  ELSE LET t0 == IF IsRooted(t) THEN Unroot(t).t ELSE t
           path == PathFromRoot(t0, newRoot)
           t1 == RootAtLoop(t0, path, 1)
       IN  [t1 EXCEPT !.dist[newRoot] = <<>>, !.bprop[newRoot] = <<>>,
                      !.root = newRoot]

\* TreeTemplate::getNextId.
GetNextId(t) == GetMPNUId(t)

\* A faulty variant of NewRootId: the root's id is reused in every case.
NewRootIdOfRoot(t) == t.id[t.root]

\* The id given to the root created by newOutGroup.
NewRootId(t) == IF IsRooted(t) THEN t.id[t.root] ELSE GetNextId(t)

\* new N(): the first free slot, with default fields.
FreeSlots(t) == Nodes \ TreeNodes(t)

\* A faulty variant of NewOutGroup: the outgroup keeps its whole length.
NewOutGroupNoSplit(t, outGroup) ==
  IF t.root = outGroup THEN t
  ELSE IF IsRooted(t) /\ outGroup \in Range(t.sons[t.root]) THEN t
  ELSE LET rootId == NewRootId(t)
           t0 == IF IsRooted(t) THEN Unroot(t).t ELSE t
           fatherOfOutGroup == t0.father[outGroup]
           t1 == RootAt(t0, fatherOfOutGroup)
           oldRoot == t1.root
           t2 == RemoveSon(t1, oldRoot, outGroup)
           new == Min(FreeSlots(t1))
           t3 == [t2 EXCEPT !.root = new, !.id[new] = rootId]
           t3b == AddSon(t3, new, oldRoot)
       IN  AddSon(t3b, new, outGroup)

\* TreeTemplate::newOutGroup(N* outGroup).
NewOutGroup(t, outGroup) ==
  IF t.root = outGroup THEN t
  ELSE IF IsRooted(t) /\ outGroup \in Range(t.sons[t.root]) THEN t
  ELSE LET rootId == NewRootId(t)
           t0 == IF IsRooted(t) THEN Unroot(t).t ELSE t
           fatherOfOutGroup == t0.father[outGroup]
           t1 == RootAt(t0, fatherOfOutGroup)
           oldRoot == t1.root
           t2 == RemoveSon(t1, oldRoot, outGroup)
           new == Min(FreeSlots(t1))
           t3 == [t2 EXCEPT !.root = new, !.id[new] = rootId]
           t3b == AddSon(t3, new, oldRoot)
           t4 == AddSon(t3b, new, outGroup)
       IN  IF HasDistanceToFather(t4, outGroup)
           THEN LET l == GetDistanceToFather(t4, outGroup) \div 2
                IN  [t4 EXCEPT !.dist[outGroup] = <<l>>, !.dist[oldRoot] = <<l>>]
           ELSE t4

RECURSIVE ResetLoop(_, _, _)
\* A faulty variant of ResetLoop: the ids are counted from 1.
ResetLoopFromOne(t, nodes, i) ==
  IF i > Len(nodes) THEN t
  ELSE LET t1 == [t EXCEPT !.id[nodes[i]] = i]
       IN  ResetLoop(t1, nodes, i + 1)

\* TreeTemplate::resetNodesId, the loop: nodes[i]->setId(i).
ResetLoop(t, nodes, i) ==
  IF i > Len(nodes) THEN t
  ELSE LET t1 == [t EXCEPT !.id[nodes[i]] = i - 1]
       IN  ResetLoop(t1, nodes, i + 1)

ResetNodesId(t) == LET nodes == GetNodes(t, t.root) IN ResetLoop(t, nodes, 1)

RECURSIVE SwapLoop(_, _, _, _, _)
\* TreeTemplate::swapNodes, the loop over the nodes found: Node::swap throws
\* (from getSon) when a position is not one of the node's sons.
SwapLoop(t, nodes, i, i1, i2) ==
  IF i > Len(nodes) THEN [t |-> t, res |-> "ok"]
  ELSE IF i1 >= GetNumberOfSons(t, nodes[i]) \/ i2 >= GetNumberOfSons(t, nodes[i])
       THEN [t |-> t, res |-> "IndexOutOfBoundsException"]
       ELSE LET t1 == SwapSons(t, nodes[i], i1, i2)
            IN  SwapLoop(t1, nodes, i + 1, i1, i2)

\* TreeTemplate::swapNodes(parentId, i1, i2).
SwapNodes(t, parentId, i1, i2) ==
  IF SearchNodeWithId(t, parentId) = <<>>
  THEN [t |-> t, res |-> "NodeNotFoundException"]
  ELSE LET nodes == SearchNodeWithId(t, parentId)
       IN  SwapLoop(t, nodes, 1, i1, i2)

\* A faulty variant of GetNode: uniqueness is never checked.
GetNodeFirst(t, i, checkId) ==
  LET node == SearchFirstNodeWithId(t, i)
  IN  IF node # Null THEN [res |-> "ok", node |-> node]
      ELSE [res |-> "NodeNotFoundException", node |-> Null]

\* TreeTemplate::getNode(id, checkId): the node returned, or the exception.
GetNode(t, i, checkId) ==
  IF checkId
  THEN LET nodes == SearchNodeWithId(t, i)
       IN  IF Len(nodes) > 1 THEN [res |-> "Exception", node |-> Null]
           ELSE IF Len(nodes) = 0
                THEN [res |-> "NodeNotFoundException", node |-> Null]
                ELSE [res |-> "ok", node |-> nodes[1]]
  ELSE LET node == SearchFirstNodeWithId(t, i)
       IN  IF node # Null THEN [res |-> "ok", node |-> node]
           ELSE [res |-> "NodeNotFoundException", node |-> Null]

\* ------------------------------------------------------- DRTreeParsimonyData
\* The distinct sites (patterns): nbDistinctSites_ of them.
NbDistinctSites == Len(weights)
Patterns == 1 .. NbDistinctSites

\* An array that was sized but never computed: empty bitsets, scores 0.
ZeroArr == [i \in Patterns |-> [b |-> {}, s |-> 0]]

\* DRTreeParsimonyLeafData::getBitsetsArray of the leaf with this id, as the
\* array a leaf contributes: its bitsets with score 0.
LeafArr(i) == [p \in Patterns |-> [b |-> leafBits[i][p], s |-> 0]]

\* ------------------------------------------------------ DRTreeParsimonyScore
RECURSIVE FoldFrom(_, _, _, _)
\* A faulty variant of FoldFrom: an empty intersection costs nothing.
FoldFromNoCost(acc, inputs, k, i) ==
  IF k > Len(inputs) THEN acc
  ELSE LET in == inputs[k][i]
           bs == acc.b \cap in.b
           next == IF bs = {}
                   THEN [b |-> acc.b \cup in.b, s |-> acc.s + in.s]
                   ELSE [b |-> bs, s |-> acc.s + in.s]
       IN  FoldFrom(next, inputs, k + 1, i)

\* computeScoresFromArrays, the loop over k at position i, acc being
\* (oBitsets[i], oScores[i]) so far.
FoldFrom(acc, inputs, k, i) ==
  IF k > Len(inputs) THEN acc
  ELSE LET in == inputs[k][i]
           bs == acc.b \cap in.b
           next == IF bs = {}
                   THEN [b |-> acc.b \cup in.b, s |-> acc.s + in.s + 1]
                   ELSE [b |-> bs, s |-> acc.s + in.s]
       IN  FoldFrom(next, inputs, k + 1, i)

\* DRTreeParsimonyScore::computeScoresFromArrays: the output arrays, out
\* being their content before the call (kept when the call throws for want of
\* an input).
ComputeScoresFromArrays(inputs, out) ==
  IF Len(inputs) < 1 THEN out
  ELSE [i \in 1 .. Len(out) |-> FoldFrom(inputs[1][i], inputs, 2, i)]

\* The cached arrays of node n toward each node of the list ns.
ArraysFor(t, c, n, ns) == [k \in 1 .. Len(ns) |-> c[t.id[n]][t.id[ns[k]]]]

\* computeScoresPostorderForNode / computeScoresPreorderForNode: combine the
\* arrays of node toward all its neighbours but source.
ComputeScoresExcluding(t, c, node, source, out) ==
  LET ns == SelectSeq(GetNeighbors(t, node, fatherFirst), LAMBDA n : n # source)
      inputs == ArraysFor(t, c, node, ns)
  IN  ComputeScoresFromArrays(inputs, out)

ComputeScoresPostorderForNode(t, c, node, out) ==
  ComputeScoresExcluding(t, c, node, t.father[node], out)

ComputeScoresPreorderForNode(t, c, node, source, out) ==
  ComputeScoresExcluding(t, c, node, source, out)

\* DRTreeParsimonyScore::computeScoresForNode: all neighbours, no exclusion.
ComputeScoresForNode(t, c, node, out) ==
  LET ns == GetNeighbors(t, node, fatherFirst)
      inputs == ArraysFor(t, c, node, ns)
  IN  ComputeScoresFromArrays(inputs, out)

RECURSIVE ComputeScoresPostorder(_, _, _), PostorderLoop(_, _, _, _)
\* DRTreeParsimonyScore::computeScoresPostorder: the cache afterwards.
ComputeScoresPostorder(t, c, node) ==
  IF IsLeaf(t, node) THEN c ELSE PostorderLoop(t, c, node, 0)

\* A faulty variant of PostorderLoop: a son that is a leaf is treated as an
\* inner node, its entry computed from its (absent) other neighbours.
PostorderLoopAllInner(t, c, node, k) ==
  IF k >= GetNumberOfSons(t, node) THEN c
  ELSE LET son == GetSon(t, node, k)
           c1 == ComputeScoresPostorder(t, c, son)
           old == c1[t.id[node]][t.id[son]]
           arr == ComputeScoresPostorderForNode(t, c1, son, old)
           c2 == [c1 EXCEPT ![t.id[node]][t.id[son]] = arr]
       IN  PostorderLoop(t, c2, node, k + 1)

PostorderLoop(t, c, node, k) ==
  IF k >= GetNumberOfSons(t, node) THEN c
  ELSE LET son == GetSon(t, node, k)
           c1 == ComputeScoresPostorder(t, c, son)
           old == c1[t.id[node]][t.id[son]]
           arr == IF IsLeaf(t, son)
                  THEN LeafArr(t.id[son])
                  ELSE ComputeScoresPostorderForNode(t, c1, son, old)
           c2 == [c1 EXCEPT ![t.id[node]][t.id[son]] = arr]
       IN  PostorderLoop(t, c2, node, k + 1)

RECURSIVE ComputeScoresPreorder(_, _, _), PreorderLoop(_, _, _, _)
\* DRTreeParsimonyScore::computeScoresPreorder: the cache afterwards.
ComputeScoresPreorder(t, c, node) ==
  IF GetNumberOfSons(t, node) = 0 THEN c
  ELSE LET c1 ==
             IF HasFather(t, node)
             THEN LET f == t.father[node]
                      old == c[t.id[node]][t.id[f]]
                      arr == IF IsLeaf(t, f)
                             THEN LeafArr(t.id[f])
                             ELSE ComputeScoresPreorderForNode(t, c, f, node, old)
                  IN  [c EXCEPT ![t.id[node]][t.id[f]] = arr]
             ELSE c
       IN  PreorderLoop(t, c1, node, 0)

PreorderLoop(t, c, node, k) ==
  IF k >= GetNumberOfSons(t, node) THEN c
  ELSE LET c1 == ComputeScoresPreorder(t, c, GetSon(t, node, k))
       IN  PreorderLoop(t, c1, node, k + 1)

\* A faulty variant of ComputeScores: the pre-order pass runs first.
ComputeScoresPreorderFirst(t, c, ra) ==
  LET c1 == ComputeScoresPreorder(t, c, t.root)
      c2 == ComputeScoresPostorder(t, c1, t.root)
  IN  [cache |-> c2, rootArr |-> ComputeScoresForNode(t, c2, t.root, ra)]

\* DRTreeParsimonyScore::computeScores: the cache and the root arrays afterwards.
ComputeScores(t, c, ra) ==
  LET c1 == ComputeScoresPostorder(t, c, t.root)
      c2 == ComputeScoresPreorder(t, c1, t.root)
  IN  [cache |-> c2, rootArr |-> ComputeScoresForNode(t, c2, t.root, ra)]

\* Sum over the patterns of score * weight.
WeightedSum(arr) == SeqSum([i \in Patterns |-> arr[i].s * weights[i]])

\* DRTreeParsimonyScore::getScore.
GetScore(ra) == WeightedSum(ra)

\* DRTreeParsimonyScore::getScoreForSite, by pattern.
GetScoreForSite(ra, i) == ra[i].s

\* Position of the uncle among grandFather's sons, in testNNI and doNNI.
UnclePosition(parentPosition) ==
  IF parentPosition > 1 THEN parentPosition - 1 ELSE 1 - parentPosition

\* The first statements common to testNNI and doNNI: the nodes found, or the
\* exception thrown before any of them is used.
NNINodes(t, nodeId) ==
  LET son == SearchFirstNodeWithId(t, nodeId)
  IN  IF son = Null THEN [res |-> "NodeNotFoundException"]
      ELSE IF ~HasFather(t, son) THEN [res |-> "NodePException"]
      ELSE LET parent == t.father[son]
           IN  IF ~HasFather(t, parent) THEN [res |-> "NodePException"]
               ELSE LET grandFather == t.father[parent]
                        pos == UnclePosition(GetSonPosition(t, grandFather, parent))
                    IN  IF pos >= GetNumberOfSons(t, grandFather)
                        THEN [res |-> "IndexOutOfBoundsException"]
                        ELSE [res |-> "ok", son |-> son, parent |-> parent,
                              grandFather |-> grandFather,
                              uncle |-> GetSon(t, grandFather, pos)]

\* DRTreeParsimonyScore::testNNI: the value returned, for nodes found by NNINodes.
TestNNIValue(t, c, ra, x) ==
  LET sonArr == c[t.id[x.parent]][t.id[x.son]]
      parentIn == ArraysFor(t, c, x.parent,
                    GetRemainingNeighbors(t, x.parent, x.grandFather, x.son,
                                          fatherFirst))
      uncleArr == c[t.id[x.grandFather]][t.id[x.uncle]]
      grandFatherIn == ArraysFor(t, c, x.grandFather,
                         GetRemainingNeighbors(t, x.grandFather, x.parent, x.uncle,
                                               fatherFirst))
      zero == ZeroArr
      grandFatherAll == Append(grandFatherIn, sonArr)
      gfArr == ComputeScoresFromArrays(grandFatherAll, zero)
      parentAll == Append(Append(parentIn, uncleArr), gfArr)
      pArr == ComputeScoresFromArrays(parentAll, zero)
  IN  WeightedSum(pArr) - GetScore(ra)

\* A faulty variant of DoNNINodes: the uncle is the son after parent, the
\* first one when parent is the last.
DoNNINodesNextUncle(t, nodeId) ==
  LET x == NNINodes(t, nodeId)
  IN  IF x.res # "ok" THEN x
      ELSE LET n == GetNumberOfSons(t, x.grandFather)
               pos == (GetSonPosition(t, x.grandFather, x.parent) + 1) % n
           IN  [x EXCEPT !.uncle = GetSon(t, x.grandFather, pos)]

\* The first statements of doNNI: the nodes found, or the exception thrown
\* before any of them is used.
DoNNINodes(t, nodeId) ==
  LET son == SearchFirstNodeWithId(t, nodeId)
  IN  IF son = Null THEN [res |-> "NodeNotFoundException"]
      ELSE IF ~HasFather(t, son) THEN [res |-> "NodePException"]
      ELSE LET parent == t.father[son]
           IN  IF ~HasFather(t, parent) THEN [res |-> "NodePException"]
               ELSE LET grandFather == t.father[parent]
                        parentPosition == GetSonPosition(t, grandFather, parent)
                        pos == IF parentPosition > 1 THEN parentPosition - 1
                               ELSE 1 - parentPosition
                    IN  IF pos >= GetNumberOfSons(t, grandFather)
                        THEN [res |-> "IndexOutOfBoundsException"]
                        ELSE [res |-> "ok", son |-> son, parent |-> parent,
                              grandFather |-> grandFather,
                              uncle |-> GetSon(t, grandFather, pos)]

\* A faulty variant of DoNNISwap: each node is put back under its own father.
DoNNISwapBack(t, x) ==
  LET t1 == RemoveSon(t, x.parent, x.son)
      t2 == RemoveSon(t1, x.grandFather, x.uncle)
      t3 == AddSon(t2, x.parent, x.son)
  IN  AddSon(t3, x.grandFather, x.uncle)

\* A faulty variant of DoNNISwap: the uncle is not detached from grandFather.
DoNNISwapKeepUncle(t, x) ==
  LET t1 == RemoveSon(t, x.parent, x.son)
      t3 == AddSon(t1, x.parent, x.uncle)
  IN  AddSon(t3, x.grandFather, x.son)

\* DRTreeParsimonyScore::doNNI: the tree afterwards, for nodes found by NNINodes.
DoNNISwap(t, x) ==
  LET t1 == RemoveSon(t, x.parent, x.son)
      t2 == RemoveSon(t1, x.grandFather, x.uncle)
      t3 == AddSon(t2, x.parent, x.uncle)
  IN  AddSon(t3, x.grandFather, x.son)

\* ------------------------------------------------ MixedSubstitutionModelSet
\* Number of mixed models, of components of each, and of weight units a
\* model shares out among its components (a weight w stands for w / Unit).
NbModels == 2
NbComp == 2
Unit == 2

Models == 1 .. NbModels
Comps == 1 .. NbComp

RECURSIVE Pow(_, _)
Pow(b, k) == IF k = 0 THEN 1 ELSE b * Pow(b, k - 1)

\* Probability 1 of a HyperNode, in units.
One == Pow(Unit, NbModels)

\* The result of a floating point division by zero.
NaN == -1

Add(a, b) == IF a = NaN \/ b = NaN THEN NaN ELSE a + b
Mul(a, b) == IF a = NaN \/ b = NaN THEN NaN ELSE a * b
Div(a, b) == IF a = NaN \/ b = NaN \/ b = 0 THEN NaN ELSE a \div b

\* The ways a model shares its units out among its components.
ProbVectors == {p \in [Comps -> 0 .. Unit] : SeqSum(p) = Unit}

\* A HyperNode: for each model the components in use, and a probability.
AllComps == [c \in Comps |-> c]
MainHyperNode == [nodes |-> [m \in Models |-> AllComps], probability |-> One]

\* MixedSubstitutionModelSet::getHyperNodeProbability: the product, over the
\* models, of the total weight of the components the HyperNode keeps.
RECURSIVE NodeWeight(_, _, _), HyperNodeProbabilityFrom(_, _, _)
NodeWeight(ms, m, cs) ==
  IF cs = <<>> THEN 0 ELSE ms.prob[m][Head(cs)] + NodeWeight(ms, m, Tail(cs))

HyperNodeProbabilityFrom(ms, hn, m) ==
  IF m > NbModels THEN 1
  ELSE NodeWeight(ms, m, hn.nodes[m]) * HyperNodeProbabilityFrom(ms, hn, m + 1)

GetHyperNodeProbability(ms, hn) == HyperNodeProbabilityFrom(ms, hn, 1)

\* The HyperNodes a model set comes with: one keeping everything, or one for
\* each component of the first model.
HyperNodeModes == {"whole", "split"}

HyperNodesFor(pr, mode) ==
  LET ms == [prob |-> pr]
      only(c) == [MainHyperNode EXCEPT !.nodes[1] = <<c>>]
  IN  IF mode = "whole" THEN <<MainHyperNode>>
      ELSE [c \in Comps |->
              [only(c) EXCEPT !.probability = GetHyperNodeProbability(ms, only(c))]]

\* MixedSubstitutionModelSet::getNodesWithModel(m) is ms.nodesWithModel[m].
ModelOfNode(ms, i) == CHOOSE m \in Models : i \in ms.nodesWithModel[m]

\* ------------------------------------- RNonHomogeneousMixedTreeLikelihood
\* An instance as the constructors leave it before init(): no sub-instance,
\* likelihood arrays sized and zero.
NewInstance(hn, upper, isMain) ==
  [hyperNode |-> hn, upperNode |-> upper, main |-> isMain,
   mvTreeLikelihoods |-> [d \in IdRange |-> <<>>],
   likelihoods |-> [d \in IdRange |-> 0],
   asked |-> FALSE]

\* Tree::getSonsId.
GetSonsId(t, i) ==
  LET n == SearchFirstNodeWithId(t, i)
  IN  [k \in 1 .. Len(t.sons[n]) |-> t.id[t.sons[n][k]]]

\* TreeTools::getNodesId(tr, i, v), as a set.
SubtreeIds(t, i) == {t.id[x] : x \in Range(GetNodes(t, SearchFirstNodeWithId(t, i)))}

\* A faulty variant of FlagOf: a subtree never adds more than 1.
FlagOfCountingSubtrees(t, vn, son) ==
  IF SubtreeIds(t, son) \cap vn # {} THEN 1 ELSE 0

\* init(): what the subtree of one son adds to flag for the model whose nodes
\* are vn.
FlagOf(t, vn, son) ==
  LET below == SubtreeIds(t, son) \ {son}
  IN  IF below \cap vn # {} THEN (IF son \in vn THEN 2 ELSE 1)
      ELSE IF son \in vn THEN 1 ELSE 0

\* init(): vExpMod, the models to expand at the node whose sons are vson.
ExpandedModels(t, ms, hn, vson) ==
  LET flag(m) == SeqSum([k \in 1 .. Len(vson) |-> FlagOf(t, ms.nodesWithModel[m], vson[k])])
  IN  SelectSeq([m \in Models |-> m],
                LAMBDA m : Len(hn.nodes[m]) > 1 /\ flag(m) >= 2)

\* A faulty variant of NbCombinations: the size of the first model only.
NbCombinationsFirst(hn, vExpMod) ==
  IF vExpMod = <<>> THEN 1 ELSE Len(hn.nodes[Head(vExpMod)])

\* init(): ttmodels.
RECURSIVE NbCombinations(_, _)
NbCombinations(hn, vExpMod) ==
  IF vExpMod = <<>> THEN 1
  ELSE Len(hn.nodes[Head(vExpMod)]) * NbCombinations(hn, Tail(vExpMod))

RECURSIVE Restrict(_, _, _, _, _)
\* A faulty variant of Restrict: only the first model of vExpMod is set.
RestrictFirstOnly(hyperNode, hn, vExpMod, j, s) ==
  IF j > NbModels THEN hn
  ELSE LET nd == hyperNode.nodes[j]
       IN  IF Len(nd) >= 1 /\ vExpMod # <<>> /\ j = Head(vExpMod)
           THEN Restrict(hyperNode, [hn EXCEPT !.nodes[j] = <<nd[(s % Len(nd)) + 1]>>],
                         vExpMod, j + 1, s \div Len(nd))
           ELSE Restrict(hyperNode, hn, vExpMod, j + 1, s)

\* A faulty variant of Restrict: s is not divided after a model is set.
RestrictSameDigit(hyperNode, hn, vExpMod, j, s) ==
  IF j > NbModels THEN hn
  ELSE LET nd == hyperNode.nodes[j]
       IN  IF Len(nd) >= 1 /\ j \in Range(vExpMod)
           THEN Restrict(hyperNode, [hn EXCEPT !.nodes[j] = <<nd[(s % Len(nd)) + 1]>>],
                         vExpMod, j + 1, s)
           ELSE Restrict(hyperNode, hn, vExpMod, j + 1, s)

\* init(): the loop over j that sets, in the copy hn of hyperNode, each
\* expanded model to its component of combination s.
Restrict(hyperNode, hn, vExpMod, j, s) ==
  IF j > NbModels THEN hn
  ELSE LET nd == hyperNode.nodes[j]
       IN  IF Len(nd) >= 1 /\ j \in Range(vExpMod)
           THEN Restrict(hyperNode, [hn EXCEPT !.nodes[j] = <<nd[(s % Len(nd)) + 1]>>],
                         vExpMod, j + 1, s \div Len(nd))
           ELSE Restrict(hyperNode, hn, vExpMod, j + 1, s)

RECURSIVE InitLoop(_, _, _, _)
\* The private constructor: the instance of HyperNode hn below upper, init()
\* having run.
NewSubLikelihood(t, ms, hn, upper) ==
  InitLoop(t, ms, NewInstance(hn, upper, FALSE), <<upper>>)

\* A faulty variant of InitLoop: the sons of a node are explored even when
\* sub-instances were registered at it.
InitLoopDescending(t, ms, self, vDesc) ==
  IF vDesc = <<>> THEN self
  ELSE LET desc == vDesc[Len(vDesc)]
           rest == SubSeq(vDesc, 1, Len(vDesc) - 1)
           vson == GetSonsId(t, desc)
           vExpMod == ExpandedModels(t, ms, self.hyperNode, vson)
       IN  IF vExpMod # <<>>
           THEN LET ttmodels == NbCombinations(self.hyperNode, vExpMod)
                    sub(i) ==
                      LET hn0 == Restrict(self.hyperNode, self.hyperNode, vExpMod, 1, i)
                          p == GetHyperNodeProbability(ms, hn0)
                          hn == [hn0 EXCEPT !.probability = p]
                      IN  NewSubLikelihood(t, ms, hn, desc)
                    made == [i \in 1 .. ttmodels |-> sub(i - 1)]
                IN  InitLoop(t, ms,
                             [self EXCEPT !.mvTreeLikelihoods[desc] = @ \o made],
                             rest \o vson)
           ELSE InitLoop(t, ms, self, rest \o vson)

\* init(): the exploration, vDesc being the nodes still to explore.
InitLoop(t, ms, self, vDesc) ==
  IF vDesc = <<>> THEN self
  ELSE LET desc == vDesc[Len(vDesc)]
           rest == SubSeq(vDesc, 1, Len(vDesc) - 1)
           vson == GetSonsId(t, desc)
           vExpMod == ExpandedModels(t, ms, self.hyperNode, vson)
       IN  IF vExpMod # <<>>
           THEN LET ttmodels == NbCombinations(self.hyperNode, vExpMod)
                    sub(i) ==
                      LET hn0 == Restrict(self.hyperNode, self.hyperNode, vExpMod, 1, i)
                          p == GetHyperNodeProbability(ms, hn0)
                          hn == [hn0 EXCEPT !.probability = p]
                      IN  NewSubLikelihood(t, ms, hn, desc)
                    made == [i \in 1 .. ttmodels |-> sub(i - 1)]
                IN  InitLoop(t, ms,
                             [self EXCEPT !.mvTreeLikelihoods[desc] = @ \o made],
                             rest)
           ELSE InitLoop(t, ms, self, rest \o vson)

\* The public constructor: one sub-instance for each HyperNode of the model
\* set, all at the root.
NewMainLikelihood(t, ms) ==
  LET rootId == t.id[t.root]
      made == [i \in 1 .. Len(ms.hyperNodes) |->
                 NewSubLikelihood(t, ms, ms.hyperNodes[i], rootId)]
  IN  [NewInstance(MainHyperNode, rootId, TRUE)
         EXCEPT !.mvTreeLikelihoods[rootId] = @ \o made]

GetProbability(self) == self.hyperNode.probability
SetProbability(self, x) == [self EXCEPT !.hyperNode.probability = x]

\* What stands for the transition probabilities of component c of a model.
Pij(c) == c

\* computeTransitionProbabilitiesForNode: the transition probabilities an
\* instance uses on the branch above the node of id son, the mean of those of
\* the components its HyperNode keeps of the branch's model, each weighted by
\* its share x of their total weight (by its weight when the total is 0).
RECURSIVE WeightedPij(_, _, _)
WeightedPij(ms, m, nd) ==
  IF nd = <<>> THEN 0
  ELSE ms.prob[m][Head(nd)] * Pij(Head(nd)) + WeightedPij(ms, m, Tail(nd))

TransitionOf(ms, hn, son) ==
  LET m == ModelOfNode(ms, son)
      nd == hn.nodes[m]
      x == NodeWeight(ms, m, nd)
  IN  IF x # 0 THEN WeightedPij(ms, m, nd) \div x ELSE WeightedPij(ms, m, nd)

\* The likelihood array of a leaf.
LeafLik == Unit

RECURSIVE ComputeSubtreeLikelihood(_, _, _, _), ComputeSons(_, _, _, _, _)
RECURSIVE MixtureSum(_, _, _, _, _)
\* computeSubtreeLikelihood: the sum over the sub-instances vr, from t on.
MixtureSum(vr, nodeId, p, k, acc) ==
  IF k > Len(vr) THEN acc
  ELSE MixtureSum(vr, nodeId, p, k + 1,
         Add(acc, Div(Mul(vr[k].likelihoods[nodeId], GetProbability(vr[k])), p)))

\* RNonHomogeneousTreeLikelihood::computeSubtreeLikelihood: the sons compute
\* (through the virtual call), then their arrays are combined.
ComputeSons(t, ms, self, node, k) ==
  IF k > Len(t.sons[node]) THEN self
  ELSE ComputeSons(t, ms, ComputeSubtreeLikelihood(t, ms, self, t.sons[node][k]),
                   node, k + 1)

RECURSIVE CombineSons(_, _, _, _, _)
CombineSons(t, ms, self, node, k) ==
  IF k > Len(t.sons[node]) THEN 1
  ELSE LET son == t.sons[node][k]
           v == IF IsLeaf(t, son) THEN LeafLik ELSE self.likelihoods[t.id[son]]
       IN  Mul(Mul(TransitionOf(ms, self.hyperNode, t.id[son]), v),
               CombineSons(t, ms, self, node, k + 1))

BaseComputeSubtreeLikelihood(t, ms, self, node) ==
  LET s1 == ComputeSons(t, ms, self, node, 1)
  IN  [s1 EXCEPT !.likelihoods[t.id[node]] = CombineSons(t, ms, s1, node, 1)]

\* A faulty variant of ComputeSubtreeLikelihood: no test of getProbability().
ComputeSubtreeLikelihoodDividing(t, ms, self0, node) ==
  LET self == [self0 EXCEPT !.asked = TRUE]
  IN  IF IsLeaf(t, node) THEN self
      ELSE LET nodeId == IF self.main THEN self.upperNode ELSE t.id[node]
           IN  IF self.mvTreeLikelihoods[nodeId] # <<>>
               THEN LET vr0 == self.mvTreeLikelihoods[nodeId]
                        vr == [k \in 1 .. Len(vr0) |->
                                 ComputeSubtreeLikelihood(t, ms, vr0[k], node)]
                        v == MixtureSum(vr, nodeId, GetProbability(self), 1, 0)
                    IN  [self EXCEPT !.mvTreeLikelihoods[nodeId] = vr,
                                     !.likelihoods[nodeId] = v]
               ELSE BaseComputeSubtreeLikelihood(t, ms, self, node)

\* RNonHomogeneousMixedTreeLikelihood::computeSubtreeLikelihood(node): the
\* instance afterwards.
ComputeSubtreeLikelihood(t, ms, self0, node) ==
  LET self == [self0 EXCEPT !.asked = TRUE]
  IN  IF IsLeaf(t, node) THEN self
      ELSE LET nodeId == IF self.main THEN self.upperNode ELSE t.id[node]
           IN  IF self.mvTreeLikelihoods[nodeId] # <<>>
               THEN LET zeroed == [self EXCEPT !.likelihoods[nodeId] = 0]
                    IN  IF GetProbability(self) = 0 THEN zeroed
                        ELSE LET vr0 == self.mvTreeLikelihoods[nodeId]
                                 vr == [k \in 1 .. Len(vr0) |->
                                          ComputeSubtreeLikelihood(t, ms, vr0[k], node)]
                                 v == MixtureSum(vr, nodeId, GetProbability(self), 1, 0)
                             IN  [zeroed EXCEPT !.mvTreeLikelihoods[nodeId] = vr,
                                                !.likelihoods[nodeId] = v]
               ELSE BaseComputeSubtreeLikelihood(t, ms, self, node)

\* computeTreeLikelihood(): computeSubtreeLikelihood at the root.
ComputeTreeLikelihood(t, ms, self) == ComputeSubtreeLikelihood(t, ms, self, t.root)

\* fireParameterChanged: the first loop, which sets the probability of every
\* sub-instance of the instance from its HyperNode.
UpdateProbabilities(ms, self) ==
  [self EXCEPT !.mvTreeLikelihoods =
     [d \in IdRange |->
        [k \in 1 .. Len(@[d]) |->
           SetProbability(@[d][k], GetHyperNodeProbability(ms, @[d][k].hyperNode))]]]

RECURSIVE FireParameterChanged(_, _, _)
\* A faulty variant of MatchParametersValues: the sub-instance is not told.
MatchParametersValuesLost(t, ms, self) == self

\* matchParametersValues(params) on a sub-instance: it takes the values and
\* runs its own fireParameterChanged.
MatchParametersValues(t, ms, self) == FireParameterChanged(t, ms, self)

\* A faulty variant of FireParameterChanged: the main instance computes the
\* tree likelihood first and updates the probabilities afterwards.
FireParameterChangedComputingFirst(t, ms, self) ==
  LET s0 == IF self.main THEN ComputeTreeLikelihood(t, ms, self) ELSE self
      s1 == UpdateProbabilities(ms, s0)
  IN  [s1 EXCEPT !.mvTreeLikelihoods =
         [d \in IdRange |->
            IF self.main /\ d # self.upperNode THEN @[d]
            ELSE [k \in 1 .. Len(@[d]) |-> MatchParametersValues(t, ms, @[d][k])]]]

\* fireParameterChanged(params), ms being the model set with the new values.
FireParameterChanged(t, ms, self) ==
  LET s1 == UpdateProbabilities(ms, self)
      s2 == [s1 EXCEPT !.mvTreeLikelihoods =
               [d \in IdRange |->
                  IF self.main /\ d # self.upperNode THEN @[d]
                  ELSE [k \in 1 .. Len(@[d]) |-> MatchParametersValues(t, ms, @[d][k])]]]
  IN  IF self.main THEN ComputeTreeLikelihood(t, ms, s2) ELSE s2

\* The asked marks are those of the current call only.
RECURSIVE ClearAsked(_)
ClearAsked(self) ==
  [self EXCEPT !.asked = FALSE,
               !.mvTreeLikelihoods =
                  [d \in IdRange |-> [k \in 1 .. Len(@[d]) |-> ClearAsked(@[d][k])]]]

\* The parameters a derivative is taken with respect to: the length of the
\* branch above a node, named here by the id of the node, and the two
\* parameters of the root branch.
Variables(t) ==
  {[name |-> "BrLen", branch |-> t.id[n]] : n \in TreeNodes(t) \ {t.root}} \cup
  {[name |-> nm, branch |-> Null] : nm \in {"BrLenRoot", "RootPosition"}}

\* computeTreeDLikelihood: the node the walk starts at, Null for none.
DStart(t, self, variable) ==
  IF self.main THEN t.root
  ELSE IF variable.name \in {"BrLenRoot", "RootPosition"} THEN t.root
  ELSE t.father[SearchFirstNodeWithId(t, variable.branch)]

\* A faulty variant of DWalk: the test on upperNode comes first.
RECURSIVE DWalk(_, _, _, _)
DWalkUpperFirst(t, self, from, steps) ==
  IF from = Null THEN [flok |-> FALSE, father |-> Null, steps |-> steps]
  ELSE IF t.id[from] = self.upperNode
       THEN [flok |-> FALSE, father |-> from, steps |-> steps + 1]
  ELSE IF self.mvTreeLikelihoods[t.id[from]] # <<>>
       THEN [flok |-> TRUE, father |-> from, steps |-> steps + 1]
  ELSE DWalk(t, self, t.father[from], steps + 1)

\* computeTreeDLikelihood: the loop up the father links; flok, the node
\* it stops at, and the number of nodes it looked at.
DWalk(t, self, from, steps) ==
  IF from = Null THEN [flok |-> FALSE, father |-> Null, steps |-> steps]
  ELSE IF self.mvTreeLikelihoods[t.id[from]] # <<>>
       THEN [flok |-> TRUE, father |-> from, steps |-> steps + 1]
  ELSE IF t.id[from] = self.upperNode
       THEN [flok |-> FALSE, father |-> from, steps |-> steps + 1]
  ELSE DWalk(t, self, t.father[from], steps + 1)

\* computeDownSubtreeDLikelihood(node): where it stops, or that it hands
\* over to the plain computation.
ComputeDownSubtreeDLikelihood(t, self, node) ==
  IF t.father[node] = Null THEN "top"
  ELSE IF t.id[node] = self.upperNode THEN "upperNode"
  ELSE "plain"

\* computeTreeDLikelihood(variable): what is computed, as a term.  Either
\* the plain computation of the base class, or, at the node the walk found,
\* the array set to zero and then, the probability of the instance not being
\* 0, the sum over the sub-instances there of their array, computed by the
\* same call on them, times weight / total.
RECURSIVE ComputeTreeDLikelihood(_, _, _)
ComputeTreeDLikelihood(t, self, variable) ==
  LET w == DWalk(t, self, DStart(t, self, variable), 0)
  IN  IF w.flok
      THEN LET fatherId == t.id[w.father]
               vr == self.mvTreeLikelihoods[fatherId]
               summed == GetProbability(self) # 0
           IN  [kind |-> "mixture", node |-> fatherId, steps |-> w.steps,
                summed |-> summed,
                terms |-> IF summed
                          THEN [k \in 1 .. Len(vr) |->
                                  [weight |-> GetProbability(vr[k]),
                                   total |-> GetProbability(self),
                                   of |-> ComputeTreeDLikelihood(t, vr[k], variable)]]
                          ELSE <<>>,
                down |-> ComputeDownSubtreeDLikelihood(t, self, w.father)]
      ELSE [kind |-> "plain", node |-> Null, steps |-> w.steps, summed |-> FALSE,
            terms |-> <<>>, down |-> "none"]

\* computeTreeD2Likelihood: the node the walk starts at, Null for none.
D2Start(t, self, variable) ==
  IF self.main THEN t.root
  ELSE IF variable.name \in {"BrLenRoot", "RootPosition"} THEN t.root
  ELSE t.father[SearchFirstNodeWithId(t, variable.branch)]

\* A faulty variant of D2Walk: the test on upperNode comes first.
RECURSIVE D2Walk(_, _, _, _)
D2WalkUpperFirst(t, self, from, steps) ==
  IF from = Null THEN [flok |-> FALSE, father |-> Null, steps |-> steps]
  ELSE IF t.id[from] = self.upperNode
       THEN [flok |-> FALSE, father |-> from, steps |-> steps + 1]
  ELSE IF self.mvTreeLikelihoods[t.id[from]] # <<>>
       THEN [flok |-> TRUE, father |-> from, steps |-> steps + 1]
  ELSE D2Walk(t, self, t.father[from], steps + 1)

\* computeTreeD2Likelihood: the loop up the father links; flok, the node
\* it stops at, and the number of nodes it looked at.
D2Walk(t, self, from, steps) ==
  IF from = Null THEN [flok |-> FALSE, father |-> Null, steps |-> steps]
  ELSE IF self.mvTreeLikelihoods[t.id[from]] # <<>>
       THEN [flok |-> TRUE, father |-> from, steps |-> steps + 1]
  ELSE IF t.id[from] = self.upperNode
       THEN [flok |-> FALSE, father |-> from, steps |-> steps + 1]
  ELSE D2Walk(t, self, t.father[from], steps + 1)

\* computeDownSubtreeD2Likelihood(node): where it stops, or that it hands
\* over to the plain computation.
ComputeDownSubtreeD2Likelihood(t, self, node) ==
  IF t.father[node] = Null THEN "top"
  ELSE IF t.id[node] = self.upperNode THEN "upperNode"
  ELSE "plain"

\* computeTreeD2Likelihood(variable): what is computed, as a term.  Either
\* the plain computation of the base class, or, at the node the walk found,
\* the array set to zero and then, the probability of the instance not being
\* 0, the sum over the sub-instances there of their array, computed by the
\* same call on them, times weight / total.
RECURSIVE ComputeTreeD2Likelihood(_, _, _)
ComputeTreeD2Likelihood(t, self, variable) ==
  LET w == D2Walk(t, self, D2Start(t, self, variable), 0)
  IN  IF w.flok
      THEN LET fatherId == t.id[w.father]
               vr == self.mvTreeLikelihoods[fatherId]
               summed == GetProbability(self) # 0
           IN  [kind |-> "mixture", node |-> fatherId, steps |-> w.steps,
                summed |-> summed,
                terms |-> IF summed
                          THEN [k \in 1 .. Len(vr) |->
                                  [weight |-> GetProbability(vr[k]),
                                   total |-> GetProbability(self),
                                   of |-> ComputeTreeD2Likelihood(t, vr[k], variable)]]
                          ELSE <<>>,
                down |-> ComputeDownSubtreeD2Likelihood(t, self, w.father)]
      ELSE [kind |-> "plain", node |-> Null, steps |-> w.steps, summed |-> FALSE,
            terms |-> <<>>, down |-> "none"]

\* No model set, no likelihood object.
NoModelSet == [nodesWithModel |-> [m \in Models |-> {}],
               prob |-> [m \in Models |-> [c \in Comps |-> 0]],
               hyperNodes |-> <<>>]
NoLik == NewInstance(MainHyperNode, 0, TRUE)

\* ------------------------------------------------------------ initial trees
\* ((1,2),(3,4)): rooted, bifurcating.
ShapeBalanced == [root |-> 7, sons |-> (5 :> <<1, 2>> @@ 6 :> <<3, 4>> @@ 7 :> <<5, 6>>)]
\* (1,2,(3,4)): the same tree stored unrooted, the root having three sons.
ShapeUnrooted == [root |-> 7, sons |-> (6 :> <<3, 4>> @@ 7 :> <<1, 2, 6>>)]
\* ((1,2,3),4): an inner node with three sons.
ShapeMulti == [root |-> 7, sons |-> (5 :> <<1, 2, 3>> @@ 7 :> <<5, 4>>)]
\* ((1,2),3,4,5): a root with four sons.
ShapeWide == [root |-> 7, sons |-> (6 :> <<1, 2>> @@ 7 :> <<6, 3, 4, 5>>)]
\* (1,2): a root with two leaves.
ShapeCherry == [root |-> 7, sons |-> (7 :> <<1, 2>>)]

ShapeSons(sh, n) == IF n \in DOMAIN sh.sons THEN sh.sons[n] ELSE <<>>
ShapeNodes(sh) == {sh.root} \cup UNION {Range(sh.sons[p]) : p \in DOMAIN sh.sons}
ShapeLeaves(sh) == ShapeNodes(sh) \ DOMAIN sh.sons

RECURSIVE Pow2(_)
Pow2(k) == IF k = 0 THEN 1 ELSE 2 * Pow2(k - 1)

\* The tree of a shape: ids n - 1 + off, branch lengths by lenMode, a branch
\* property on the nodes numbered 3 and above.
MkTree(sh, off, lenMode) ==
  LET in == ShapeNodes(sh)
      hasLen(n) == /\ n \in in /\ n # sh.root
                   /\ \/ lenMode = "all"
                      \/ lenMode = "odd" /\ n % 2 = 1
  IN  [root |-> sh.root,
       father |-> [n \in Nodes |->
                     IF \E p \in DOMAIN sh.sons : n \in Range(sh.sons[p])
                     THEN CHOOSE p \in DOMAIN sh.sons : n \in Range(sh.sons[p])
                     ELSE Null],
       sons |-> [n \in Nodes |-> ShapeSons(sh, n)],
       id |-> [n \in Nodes |-> IF n \in in THEN n - 1 + off ELSE 0],
       dist |-> [n \in Nodes |-> IF hasLen(n) THEN <<n * Pow2(MaxEdits)>> ELSE <<>>],
       bprop |-> [n \in Nodes |-> IF n \in in /\ n # sh.root /\ n >= 3
                                  THEN <<n>> ELSE <<>>]]

\* The data sets: one pattern of weight 1, or two patterns of weights 2 and 1.
WeightSets == {<<1>>, <<2, 1>>}

\* Leaf data: the first pattern as given by st (leaf -> state), the second
\* pattern, if any, fixed (leaf n in state n mod NbStates).
MkLeafBits(t, sh, st, w) ==
  [i \in IdRange |->
     IF \E n \in ShapeLeaves(sh) : t.id[n] = i
     THEN LET n == CHOOSE n \in ShapeLeaves(sh) : t.id[n] = i
          IN  [p \in 1 .. Len(w) |-> IF p = 1 THEN {st[n]} ELSE {n % NbStates}]
     ELSE [p \in 1 .. Len(w) |-> {}]]

\* The assignments of states to the leaves of a shape, one for each way of
\* splitting the leaves into classes of equal state: the states are numbered
\* in the order in which the leaves 1, 2, ... first show them.
Assignments(sh) ==
  {st \in [ShapeLeaves(sh) -> States] :
     \A n \in ShapeLeaves(sh) :
       st[n] = 0 \/ \E m \in ShapeLeaves(sh) : m < n /\ st[m] = st[n] - 1}

ZeroCache == [i \in IdRange |-> [j \in IdRange |-> ZeroArr]]

NoCall == [op |-> "init", arg |-> 0, res |-> "ok", val |-> 0]
NoChain == [stage |-> "fresh", id |-> 0, delta |-> 0, base |-> 0]

\* The state after construction of the score object on tree t: init_ fills the
\* leaf data and runs computeScores().
InitObjects(t, sh, st, w, ff) ==
  /\ root = t.root
  /\ father = t.father
  /\ sons = t.sons
  /\ id = t.id
  /\ dist = t.dist
  /\ bprop = t.bprop
  /\ fatherFirst = ff
  /\ weights = w
  /\ leafBits = MkLeafBits(t, sh, st, w)
  /\ LET r == ComputeScores(t, ZeroCache, ZeroArr)
     IN  cache = r.cache /\ rootArr = r.rootArr
  /\ last = NoCall
  /\ chain = NoChain
  /\ nbEdits = 0

\* The same, no likelihood object having been built.
InitWith(t, sh, st, w, ff) ==
  /\ InitObjects(t, sh, st, w, ff)
  /\ modelSet = NoModelSet
  /\ lik = NoLik

ParsShapes == {ShapeBalanced, ShapeUnrooted, ShapeWide}
TreeShapes == {ShapeBalanced, ShapeUnrooted, ShapeMulti, ShapeCherry}

Init ==
  \E sh \in ParsShapes : \E st \in Assignments(sh) : \E w \in WeightSets :
    \E ff \in BOOLEAN :
      LET t == MkTree(sh, 0, "all") IN InitWith(t, sh, st, w, ff)

InitTree ==
  \E sh \in TreeShapes : \E off \in {0, 1} : \E lenMode \in {"all", "odd"} :
    LET t == MkTree(sh, off, lenMode)
    IN  InitWith(t, sh, [n \in ShapeLeaves(sh) |-> n % NbStates], <<1>>, FALSE)

\* Ways of numbering the nodes: all different, with gaps, shared by two
\* nodes, shared by all.
IdModes == {"distinct", "sparse", "paired", "same"}

IdFor(n, mode) ==
  IF mode = "distinct" THEN n - 1
  ELSE IF mode = "sparse" THEN (3 * n) % (MaxId + 1)
  ELSE IF mode = "paired" THEN n \div 2
  ELSE MaxId

\* Trees whose ids were set from outside (Node::setId), for the lookups.
InitIds ==
  \E sh \in TreeShapes : \E mode \in IdModes :
    LET t0 == MkTree(sh, 0, "all")
        t == [t0 EXCEPT !.id = [n \in Nodes |-> IF n \in ShapeNodes(sh)
                                                 THEN IdFor(n, mode) ELSE 0]]
    IN  InitWith(t, sh, [n \in ShapeLeaves(sh) |-> n % NbStates], <<1>>, FALSE)

\* The trees the likelihood object is built on.
MixShapes == {ShapeUnrooted}

\* A model set fully set up for the tree: every node but the root has a
\* model, the models all start from the same weights; then the main
\* likelihood object built on it.
InitMix ==
  \E sh \in MixShapes : \E mode \in HyperNodeModes :
    \E v \in ProbVectors : \E pr \in {[m \in Models |-> v]} :
      \E assign \in [ShapeNodes(sh) \ {sh.root} -> Models] :
        LET t == MkTree(sh, 0, "all")
            ms == [nodesWithModel |->
                     [m \in Models |->
                        {t.id[n] : n \in {x \in DOMAIN assign : assign[x] = m}}],
                   prob |-> pr,
                   hyperNodes |-> HyperNodesFor(pr, mode)]
        IN  /\ InitObjects(t, sh, [n \in ShapeLeaves(sh) |-> n % NbStates], <<1>>, FALSE)
            /\ modelSet = ms
            /\ lik = NewMainLikelihood(t, ms)

\* ------------------------------------------------------------------ actions
Call(op, arg, res, val) == [op |-> op, arg |-> arg, res |-> res, val |-> val]

\* computeScores(): refill the cache and the root arrays for the current tree.
ComputeScoresCall ==
  /\ LET t == T
         r == ComputeScores(t, cache, rootArr)
     IN  cache' = r.cache /\ rootArr' = r.rootArr
  /\ last' = Call("computeScores", 0, "ok", 0)
  /\ chain' = IF chain.stage = "done" THEN [chain EXCEPT !.stage = "recomputed"]
              ELSE NoChain
  /\ UNCHANGED <<treeVars, leafBits, weights, fatherFirst, mixVars, nbEdits>>

\* A faulty variant of TestNNI: the array of parent toward son is cleared.
TestNNIStoring(nodeId) ==
  LET t == T
      x == NNINodes(t, nodeId)
      v == IF x.res = "ok" THEN TestNNIValue(t, cache, rootArr, x) ELSE 0
  IN  /\ last' = Call("testNNI", nodeId, x.res, v)
      /\ chain' = chain
      /\ cache' = IF x.res = "ok"
                  THEN [cache EXCEPT ![t.id[x.parent]][t.id[x.son]] = ZeroArr]
                  ELSE cache
      /\ UNCHANGED <<treeVars, leafBits, rootArr, weights, fatherFirst, mixVars, nbEdits>>

\* testNNI(nodeId): returns a score difference or throws; const.
TestNNI(nodeId) ==
  LET t == T
      x == NNINodes(t, nodeId)
      v == IF x.res = "ok" THEN TestNNIValue(t, cache, rootArr, x) ELSE 0
  IN  /\ last' = Call("testNNI", nodeId, x.res, v)
      /\ chain' = IF x.res = "ok" /\ chain.stage \in {"fresh", "tested", "recomputed"}
                  THEN [stage |-> "tested", id |-> nodeId, delta |-> v,
                        base |-> GetScore(rootArr)]
                  ELSE chain
      /\ UNCHANGED <<treeVars, parsVars, fatherFirst, mixVars, nbEdits>>

\* What a call that changed (or may have changed) the tree does to the
\* bookkeeping of this model.
Edited(t) ==
  /\ SetTree(t)
  /\ nbEdits' = IF t = T THEN nbEdits ELSE nbEdits + 1
  /\ UNCHANGED <<parsVars, fatherFirst, mixVars>>

\* A faulty variant of DoNNI: son is detached before parent is checked.
DoNNIDetachFirst(nodeId) ==
  LET t == T
      x == NNINodes(t, nodeId)
      son == SearchFirstNodeWithId(t, nodeId)
      t1 == IF x.res = "ok" THEN DoNNISwap(t, x)
            ELSE IF x.res = "NodePException" /\ HasFather(t, son)
                 THEN RemoveSon(t, t.father[son], son)
                 ELSE t
  IN  /\ last' = Call("doNNI", nodeId, x.res, 0)
      /\ Edited(t1)
      /\ chain' = [NoChain EXCEPT !.stage = "stale"]

\* A faulty variant of DoNNI: the scores are recomputed on the new tree.
DoNNIRecomputing(nodeId) ==
  LET t == T
      x == NNINodes(t, nodeId)
      t1 == IF x.res = "ok" THEN DoNNISwap(t, x) ELSE t
      r == ComputeScores(t1, cache, rootArr)
  IN  /\ last' = Call("doNNI", nodeId, x.res, 0)
      /\ SetTree(t1)
      /\ nbEdits' = IF t1 = t THEN nbEdits ELSE nbEdits + 1
      /\ cache' = r.cache /\ rootArr' = r.rootArr
      /\ chain' = NoChain
      /\ UNCHANGED <<leafBits, weights, fatherFirst, mixVars>>

\* doNNI(nodeId): exchanges the node and its uncle, or throws.
DoNNI(nodeId) ==
  LET t == T
      x == DoNNINodes(t, nodeId)
      t1 == IF x.res = "ok" THEN DoNNISwap(t, x) ELSE t
  IN  /\ last' = Call("doNNI", nodeId, x.res, 0)
      /\ Edited(t1)
      /\ chain' = IF x.res # "ok" THEN chain
                  ELSE IF chain.stage = "tested" /\ chain.id = nodeId
                       THEN [chain EXCEPT !.stage = "done"]
                       ELSE [NoChain EXCEPT !.stage = "stale"]

StaleChain == [NoChain EXCEPT !.stage = "stale"]

\* rootAt(nodeId) == rootAt(getNode(nodeId)).
RootAtCall(nodeId) ==
  LET t == T
      n == SearchFirstNodeWithId(t, nodeId)
      t1 == IF n = Null THEN t ELSE RootAt(t, n)
  IN  /\ nbEdits < MaxEdits
      /\ last' = Call("rootAt", nodeId,
                      IF n = Null THEN "NodeNotFoundException" ELSE "ok", 0)
      /\ Edited(t1)
      /\ chain' = StaleChain

\* newOutGroup(nodeId) == newOutGroup(getNode(nodeId)).  The value recorded
\* tells whether a root was created (0: no) and from which tree (1: rooted,
\* 2: unrooted).
NewOutGroupCall(nodeId) ==
  LET t == T
      n == SearchFirstNodeWithId(t, nodeId)
      t1 == IF n = Null THEN t ELSE NewOutGroup(t, n)
  IN  /\ nbEdits < MaxEdits
      /\ FreeSlots(t) # {}
      /\ last' = Call("newOutGroup", nodeId,
                      IF n = Null THEN "NodeNotFoundException" ELSE "ok",
                      IF t1.root = t.root THEN 0 ELSE IF IsRooted(t) THEN 1 ELSE 2)
      /\ Edited(t1)
      /\ chain' = StaleChain

\* unroot().
UnrootCall ==
  /\ nbEdits < MaxEdits
  /\ LET t == T
         r == Unroot(t)
         t1 == r.t
     IN  last' = Call("unroot", 0, r.res, 0) /\ Edited(t1)
  /\ chain' = StaleChain

\* swapNodes(parentId, i1, i2).
SwapNodesCall(parentId, i1, i2) ==
  /\ nbEdits < MaxEdits
  /\ LET t == T
         r == SwapNodes(t, parentId, i1, i2)
         t1 == r.t
     IN  last' = Call("swapNodes", parentId, r.res, 0) /\ Edited(t1)
  /\ chain' = StaleChain

\* resetNodesId().
ResetNodesIdCall ==
  /\ nbEdits < MaxEdits
  /\ last' = Call("resetNodesId", 0, "ok", 0)
  /\ LET t == T
         t1 == ResetNodesId(t)
     IN  Edited(t1)
  /\ chain' = StaleChain

\* getNode(id, checkId): looks a node up; the node found is recorded.
GetNodeCall(nodeId, checkId) ==
  /\ LET t == T
         r == GetNode(t, nodeId, checkId)
     IN  last' = Call(IF checkId THEN "getNodeChecked" ELSE "getNode",
                      nodeId, r.res, r.node)
  /\ UNCHANGED <<treeVars, parsVars, fatherFirst, mixVars, chain, nbEdits>>

\* fireParameterChanged(params) on the main instance, the parameters giving
\* the models the weights pr.
FireParameterChangedCall(pr) ==
  /\ LET t == T
         ms == [modelSet EXCEPT !.prob = pr]
         l0 == ClearAsked(lik)
     IN  /\ modelSet' = ms
         /\ lik' = FireParameterChanged(t, ms, l0)
  /\ last' = Call("fireParameterChanged", 0, "ok", 0)
  /\ UNCHANGED <<treeVars, parsVars, fatherFirst, chain, nbEdits>>

\* computeTreeLikelihood() on the main instance.
ComputeTreeLikelihoodCall ==
  /\ LET t == T
         l0 == ClearAsked(lik)
     IN  lik' = ComputeTreeLikelihood(t, modelSet, l0)
  /\ last' = Call("computeTreeLikelihood", 0, "ok", 0)
  /\ UNCHANGED <<treeVars, parsVars, fatherFirst, chain, nbEdits, modelSet>>

\* computeTreeDLikelihood(variable) on the main instance.
ComputeTreeDLikelihoodCall(variable) ==
  /\ last' = Call("computeTreeDLikelihood", variable, "ok",
                  ComputeTreeDLikelihood(T, lik, variable))
  /\ UNCHANGED <<treeVars, parsVars, fatherFirst, mixVars, chain, nbEdits>>

\* computeTreeD2Likelihood(variable) on the main instance.
ComputeTreeD2LikelihoodCall(variable) ==
  /\ last' = Call("computeTreeD2Likelihood", variable, "ok",
                  ComputeTreeD2Likelihood(T, lik, variable))
  /\ UNCHANGED <<treeVars, parsVars, fatherFirst, mixVars, chain, nbEdits>>

\* ----------------------------------------------------------- specifications
\* The score object in use: scoring, testing and applying NNIs.
Next ==
  \/ ComputeScoresCall
  \/ \E i \in IdRange : TestNNI(i)
  \/ \E i \in IdRange : nbEdits < MaxNNI /\ DoNNI(i)

Spec == Init /\ [][Next]_vars

\* The tree being edited through the tree mutation surface and doNNI.
NextTree ==
  \/ \E i \in IdRange : RootAtCall(i)
  \/ \E i \in IdRange : NewOutGroupCall(i)
  \/ UnrootCall
  \/ \E i \in IdRange : \E i1, i2 \in 0 .. MaxPos : i1 <= i2 /\ SwapNodesCall(i, i1, i2)
  \/ ResetNodesIdCall
  \/ \E i \in IdRange : nbEdits < MaxEdits /\ DoNNI(i)

SpecTree == InitTree /\ [][NextTree]_vars

\* Lookups by id and renumbering, on trees numbered in any way.
NextIds ==
  \/ \E i \in IdRange : \E checkId \in BOOLEAN : GetNodeCall(i, checkId)
  \/ ResetNodesIdCall

SpecIds == InitIds /\ [][NextIds]_vars

\* The mixed likelihood object in use: parameter changes and computations.
NextMix ==
  \/ \E pr \in [Models -> ProbVectors] : FireParameterChangedCall(pr)
  \/ ComputeTreeLikelihoodCall

SpecMix == InitMix /\ [][NextMix]_vars

\* The derivatives of the mixed likelihood, asked of the main object.
NextDeriv ==
  \/ \E v \in Variables(T) : ComputeTreeDLikelihoodCall(v)
  \/ \E v \in Variables(T) : ComputeTreeD2LikelihoodCall(v)

SpecDeriv == InitMix /\ [][NextDeriv]_vars

\* ------------------------------------------------------------------- claims
InnerNodes(t) == {n \in TreeNodes(t) : ~IsLeaf(t, n)}

\* The cache was filled by computeScores() on the tree as it is now.
CacheFresh == chain.stage \in {"fresh", "tested", "recomputed"}

\* The total of a node: its neighbours' arrays combined with no exclusion.
NodeTotal(n) == ComputeScoresForNode(T, cache, n, ZeroArr)

\* C1: the value testNNI(id) returned on a freshly filled cache equals
\* getScore() after doNNI(id) and computeScores(), minus getScore() before
\* the doNNI, nothing else having changed the tree in between.
C1_DeltaMatches ==
  chain.stage = "recomputed" => GetScore(rootArr) = chain.base + chain.delta

\* C2: after computeScores(), at every internal node of the tree the arrays
\* of all the neighbours combine, for every pattern, into the root's total.
C2_AllNodesAgree ==
  CacheFresh =>
    \A n \in InnerNodes(T) : \A p \in Patterns : NodeTotal(n)[p].s = rootArr[p].s

\* The scenario of the four leaves A, B, C, D (ids 0, 1, 2, 3) in states
\* 0, 0, 1, 1, one pattern of weight 1, on the tree of shape sh, scored.
Scenario(sh) ==
  /\ root = sh.root
  /\ \A n \in Nodes : sons[n] = ShapeSons(sh, n)
  /\ \A n \in ShapeNodes(sh) : id[n] = n - 1
  /\ weights = <<1>>
  /\ leafBits[0][1] = {0} /\ leafBits[1][1] = {0}
  /\ leafBits[2][1] = {1} /\ leafBits[3][1] = {1}
  /\ CacheFresh

C8_LeafEntries ==
  CacheFresh =>
    \A n \in InnerNodes(T) : \A m \in Range(GetNeighbors(T, n, fatherFirst)) :
      IsLeaf(T, m) => cache[id[n]][id[m]] = LeafArr(id[m])

C8_Witness ==
  /\ chain.stage = "recomputed" /\ last.op = "computeScores"
  /\ \E n \in InnerNodes(T) : \E m \in Range(sons[n]) :
       /\ IsLeaf(T, m)
       /\ cache[id[n]][id[m]] = LeafArr(id[m])
       /\ \A p \in Patterns : leafBits[id[m]][p] # {}

\* C3: a testNNI call, whether it returns or throws, changes neither the
\* tree nor the leaf data, the cached arrays, the root arrays or getScore().
C3_TestNNIFrame ==
  [][last'.op = "testNNI" =>
       /\ UNCHANGED <<treeVars, leafBits, cache, rootArr, weights>>
       /\ GetScore(rootArr') = GetScore(rootArr)]_vars

C3_Witness ==
  /\ last.op = "testNNI" /\ last.res = "ok" /\ last.val # 0
  /\ chain.stage = "tested"

\* The node with this id exists and it, or its father, has no father.
RootIsPivot(t, nodeId) ==
  LET n == SearchFirstNodeWithId(t, nodeId)
  IN  /\ n # Null
      /\ IF HasFather(t, n) THEN ~HasFather(t, t.father[n]) ELSE TRUE

\* C4: testNNI(id) and doNNI(id) throw NodePException ("must not be the root
\* node") when the node of that id, or its father, has no father, and the
\* tree is then exactly as it was.
C4_RootPivotFails ==
  [][(last'.op \in {"testNNI", "doNNI"} /\ RootIsPivot(T, last'.arg)) =>
       (last'.res = "NodePException" /\ UNCHANGED treeVars)]_vars

C4_Witness ==
  /\ last.op = "doNNI" /\ last.res = "NodePException"
  /\ HasFather(T, SearchFirstNodeWithId(T, last.arg))

\* C5: a doNNI(id) that succeeds puts son under grandFather and uncle under
\* parent (each appended to the son list), leaves every other father link,
\* every other son list, the root, the set of nodes, the ids and the
\* subtrees below son and uncle as they were.
C5_Exchange ==
  [][(last'.op = "doNNI" /\ last'.res = "ok") =>
       LET x == NNINodes(T, last'.arg)
       IN  /\ father'[x.son] = x.grandFather
           /\ father'[x.uncle] = x.parent
           /\ sons'[x.grandFather] = Append(RemoveFirst(sons[x.grandFather], x.uncle), x.son)
           /\ sons'[x.parent] = Append(RemoveFirst(sons[x.parent], x.son), x.uncle)
           /\ \A n \in Nodes \ {x.son, x.uncle} : father'[n] = father[n]
           /\ \A n \in Nodes \ {x.parent, x.grandFather} : sons'[n] = sons[n]
           /\ root' = root /\ id' = id
           /\ TreeNodes(T') = TreeNodes(T)
           /\ GetNodes(T', x.son) = GetNodes(T, x.son)
           /\ GetNodes(T', x.uncle) = GetNodes(T, x.uncle)]_vars

C5_Witness ==
  /\ last.op = "doNNI" /\ last.res = "ok"
  /\ \E n \in TreeNodes(T) :
       /\ id[n] = last.arg /\ ~IsLeaf(T, n) /\ HasFather(T, n)
       /\ GetSon(T, father[n], GetNumberOfSons(T, father[n]) - 1) = n

\* The cached totals no longer describe the tree.
CacheStale == ComputeScores(T, cache, rootArr).rootArr # rootArr

\* C6: doNNI changes no cached array and no root array, so that getScore()
\* and getScoreForSite() return what they returned before it; only
\* computeScores() changes them.
C6_DoNNIKeepsCache ==
  [][/\ last'.op = "doNNI" =>
          /\ UNCHANGED <<cache, rootArr, leafBits, weights>>
          /\ GetScore(rootArr') = GetScore(rootArr)
          /\ \A p \in Patterns : GetScoreForSite(rootArr', p) = GetScoreForSite(rootArr, p)
     /\ (rootArr' # rootArr \/ cache' # cache) => last'.op = "computeScores"]_vars

C6_Witness ==
  last.op = "doNNI" /\ last.res = "ok" /\ chain.stage = "done" /\ CacheStale

RECURSIVE Below(_, _, _)
\* The nodes met from the set S in at most k steps down the son lists.
Below(t, S, k) ==
  IF k = 0 THEN S
  ELSE Below(t, S \cup UNION {Range(t.sons[n]) : n \in S}, k - 1)

\* The nodes of the tree: all that the son lists lead to from the root.
InTree(t) == Below(t, {t.root}, MaxNodes)

RECURSIVE ReachesRoot(_, _, _)
\* The father links lead from n to the root in at most k steps.
ReachesRoot(t, n, k) ==
  IF n = t.root THEN TRUE
  ELSE IF k = 0 \/ ~HasFather(t, n) THEN FALSE
       ELSE ReachesRoot(t, t.father[n], k - 1)

Occurrences(s, x) == Cardinality({k \in 1 .. Len(s) : s[k] = x})

WellFormed(t) ==
  /\ ~HasFather(t, t.root)
  /\ \A n \in InTree(t) : ReachesRoot(t, n, MaxNodes)
  /\ \A n \in InTree(t) \ {t.root} :
       HasFather(t, n) /\ Occurrences(t.sons[t.father[n]], n) = 1

\* C9: after any sequence of rootAt, unroot, newOutGroup, swapNodes,
\* resetNodesId and doNNI calls, failed ones included, the father links lead
\* from every node of the tree to the root, the root has no father, and
\* every other node is exactly once in the son list of its father.
C9_WellFormed == WellFormed(T)

C9_Witness ==
  /\ nbEdits >= 2 /\ last.op = "rootAt" /\ last.res = "ok"
  /\ GetNumberOfSons(T, root) = 1 /\ ~IsLeaf(T, GetSon(T, root, 0))
  /\ Cardinality(InTree(T)) >= 6

DistinctIds(t) == \A n, m \in InTree(t) : n # m => t.id[n] # t.id[m]

\* C10: the ids of the nodes of the tree stay pairwise distinct under rootAt,
\* unroot, newOutGroup, swapNodes, resetNodesId and doNNI, and the root that
\* newOutGroup creates has the id of the former root if the tree was rooted,
\* an id that no node of the tree had otherwise.
C10_DistinctIds ==
  /\ []DistinctIds(T)
  /\ [][(last'.op = "newOutGroup" /\ root' # root) =>
          /\ root' \notin InTree(T)
          /\ IF IsRooted(T) THEN id'[root'] = id[root]
             ELSE \A n \in InTree(T) : id[n] # id'[root']]_vars

C10_Witness ==
  /\ last.op = "newOutGroup" /\ last.val = 2
  /\ IsRooted(T) /\ DistinctIds(T)
  /\ \A n \in InTree(T) \ {root} : id[n] # id[root]

\* The branches of the tree: the two nodes each joins, with the length and
\* the property stored for it (at its lower node).
Branches(t) ==
  {[ends |-> {n, t.father[n]}, dist |-> t.dist[n], bprop |-> t.bprop[n]] :
     n \in InTree(t) \ {t.root}}

\* What C11 says of a step that is a rootAt on the node n of the tree.
RootAtMoves(n) ==
  LET path == PathFromRoot(T, n)
  IN  /\ root' = n /\ father'[n] = Null /\ dist'[n] = <<>>
      /\ \A i \in 1 .. Len(path) - 1 : father'[path[i]] = path[i + 1]
      /\ Branches(T') = Branches(T)
      /\ \A m \in InTree(T) \ Range(path) :
           /\ father'[m] = father[m] /\ sons'[m] = sons[m]
           /\ dist'[m] = dist[m] /\ bprop'[m] = bprop[m]

\* C11: rootAt(n) makes n the root, without father or branch length, by
\* reversing the father links on the path from the old root to n; every
\* branch keeps its length and its property (moved to its other end on the
\* path), and the nodes off the path are untouched.
C11_RootAtMoves ==
  [][(last'.op = "rootAt" /\ last'.res = "ok") =>
       RootAtMoves(SearchFirstNodeWithId(T, last'.arg))]_vars

\* What C12 says of a step that is a newOutGroup on the non-root node n.
OutGroupMade(n) ==
  /\ GetNumberOfSons(T', root') = 2
  /\ n \in Range(sons'[root'])
  /\ (~(IsRooted(T) /\ n \in Range(sons[root])) /\ HasDistanceToFather(T, n)) =>
       \A m \in Range(sons'[root']) :
         /\ HasDistanceToFather(T', m)
         /\ 2 * GetDistanceToFather(T', m) = GetDistanceToFather(T, n)

\* C12: after newOutGroup(n), n not being the root, the root has exactly
\* two sons, one of them n; unless n already was a son of a two-son root, the
\* two sons of the root each carry half of the length n had.
C12_OutGroup ==
  [][(last'.op = "newOutGroup" /\ last'.res = "ok"
        /\ SearchFirstNodeWithId(T, last'.arg) # root) =>
       OutGroupMade(SearchFirstNodeWithId(T, last'.arg))]_vars

C12_Witness ==
  /\ last.op = "newOutGroup" /\ last.val = 2 /\ nbEdits >= 2
  /\ GetNumberOfSons(T, root) = 2
  /\ id[GetSon(T, root, 1)] = last.arg
  /\ HasDistanceToFather(T, GetSon(T, root, 1))
  /\ dist[GetSon(T, root, 0)] = dist[GetSon(T, root, 1)]

\* The root has two sons and both are leaves.
TwoLeafRoot(t) ==
  /\ IsRooted(t)
  /\ IsLeaf(t, GetSon(t, t.root, 0)) /\ IsLeaf(t, GetSon(t, t.root, 1))

\* C13 as stated: unroot() throws UnrootedTreeException, and leaves the tree
\* unchanged, when the tree is not rooted and when both sons of the root are
\* leaves.
C13_Original ==
  [][(last'.op = "unroot" /\ (~IsRooted(T) \/ TwoLeafRoot(T))) =>
       (last'.res = "UnrootedTreeException" /\ UNCHANGED treeVars)]_vars

\* C13: unroot() throws UnrootedTreeException when the root does not have
\* exactly two sons; when both sons of the root are leaves it throws nothing
\* and returns false; in both cases the tree is unchanged.
C13_UnrootFails ==
  [][last'.op = "unroot" =>
       /\ ~IsRooted(T) => (last'.res = "UnrootedTreeException" /\ UNCHANGED treeVars)
       /\ TwoLeafRoot(T) => (last'.res = "false" /\ UNCHANGED treeVars)]_vars

C13_Witness ==
  /\ last.op = "unroot" /\ last.res = "UnrootedTreeException"
  /\ GetNumberOfSons(T, root) >= 3

\* C14: unroot() on a tree whose root has two leaves for sons returns false
\* and the root, the leaves, their father links and their lengths are as
\* before the call.
C14_TwoLeaves ==
  [][(last'.op = "unroot" /\ TwoLeafRoot(T)) =>
       /\ last'.res = "false"
       /\ root' = root /\ sons'[root] = sons[root]
       /\ \A m \in Range(sons[root]) :
            /\ father'[m] = root /\ dist'[m] = dist[m] /\ sons'[m] = <<>>
       /\ InTree(T') = InTree(T)]_vars

C14_Witness ==
  /\ last.op = "unroot" /\ last.res = "false" /\ TwoLeafRoot(T)
  /\ \E m \in Range(sons[root]) : HasDistanceToFather(T, m)

\* The sum of the branch lengths of the tree.
TotalLength(t) ==
  LET nodes == GetNodes(t, t.root)
  IN  SeqSum([i \in 1 .. Len(nodes) |->
                IF HasDistanceToFather(t, nodes[i])
                THEN GetDistanceToFather(t, nodes[i]) ELSE 0])

\* What C15 says of a step that is a successful unroot().
UnrootDone ==
  LET s0 == GetSon(T, root, 0)
      s1 == GetSon(T, root, 1)
      top == IF IsLeaf(T, s0) THEN s1 ELSE s0
      low == IF IsLeaf(T, s0) THEN s0 ELSE s1
  IN  /\ root' = top /\ father'[top] = Null
      /\ sons'[top] = Append(sons[top], low) /\ father'[low] = top
      /\ sons'[low] = sons[low]
      /\ InTree(T') = InTree(T) \ {root}
      /\ dist'[top] = <<>>
      /\ dist'[low] = IF HasDistanceToFather(T, top) /\ HasDistanceToFather(T, low)
                      THEN <<GetDistanceToFather(T, top) + GetDistanceToFather(T, low)>>
                      ELSE IF HasDistanceToFather(T, top) THEN dist[top] ELSE dist[low]
      /\ TotalLength(T') = TotalLength(T)
      /\ \A m \in InTree(T) \ {root, top, low} :
           /\ father'[m] = father[m] /\ sons'[m] = sons[m]
           /\ dist'[m] = dist[m] /\ bprop'[m] = bprop[m]
      /\ \A m \in InTree(T) \ {root} : id'[m] = id[m]

\* C15: a successful unroot() removes the old root, makes root its son at
\* position 0 (the other one if that is a leaf), appends the other son to it
\* with the sum of the two lengths (or the only one present), leaves the new
\* root without length, and changes neither the total length nor any other
\* node.
C15_UnrootMerges ==
  [][(last'.op = "unroot" /\ last'.res = "true") => UnrootDone]_vars

C15_Witness ==
  /\ last.op = "unroot" /\ last.res = "true" /\ nbEdits >= 2
  /\ ~IsRooted(T)
  /\ LET low == GetSon(T, root, GetNumberOfSons(T, root) - 1)
     IN  HasDistanceToFather(T, low) /\ ~IsLeaf(T, low)

\* The nodes of the tree that carry the id i.
Carrying(t, i) == {n \in InTree(t) : t.id[n] = i}

\* C16: getNode(id) throws NodeNotFoundException when no node carries id,
\* throws the non-unique-id Exception when several nodes carry id and
\* checkId was set, and otherwise returns a node of the tree that carries
\* id; the tree is not modified.
C16_GetNode ==
  [][last'.op \in {"getNode", "getNodeChecked"} =>
       LET found == Carrying(T, last'.arg)
       IN  /\ UNCHANGED treeVars
           /\ found = {} => last'.res = "NodeNotFoundException"
           /\ (Cardinality(found) > 1 /\ last'.op = "getNodeChecked")
                => last'.res = "Exception"
           /\ (found # {} /\ ~(Cardinality(found) > 1 /\ last'.op = "getNodeChecked"))
                => (last'.res = "ok" /\ last'.val \in found)]_vars

C16_Witness ==
  /\ last.op = "getNodeChecked" /\ last.res = "Exception"
  /\ Cardinality(Carrying(T, last.arg)) > 1

\* C17: after resetNodesId() on a tree of n nodes, whatever its ids were,
\* getNodesId() holds each of 0 .. n-1 exactly once and nothing else.
C17_DenseIds ==
  last.op = "resetNodesId" =>
    LET ids == GetNodesId(T)
        n == Cardinality(InTree(T))
    IN  /\ Len(ids) = n
        /\ \A k \in 0 .. n - 1 : Occurrences(ids, k) = 1

C17_Witness ==
  /\ last.op = "resetNodesId" /\ nbEdits = 1
  /\ Cardinality(InTree(T)) >= 6
  /\ Range(GetNodesId(T)) = 0 .. Cardinality(InTree(T)) - 1
  /\ [n \in Nodes |-> IF n \in InTree(T) THEN id[n] ELSE 0]
       # [n \in Nodes |-> IF n \in InTree(T) THEN n - 1 ELSE 0]


\* The combine operator as one step over all the inputs at pattern i: the
\* intersection of all the bitsets with the sum of the scores or, when the
\* intersection is empty, their union with the sum plus one.
RECURSIVE AndAll(_, _, _), OrAll(_, _, _), SumAll(_, _, _)
AndAll(inputs, k, i) ==
  IF k = Len(inputs) THEN inputs[k][i].b
  ELSE inputs[k][i].b \cap AndAll(inputs, k + 1, i)

OrAll(inputs, k, i) ==
  IF k = Len(inputs) THEN inputs[k][i].b
  ELSE inputs[k][i].b \cup OrAll(inputs, k + 1, i)

SumAll(inputs, k, i) ==
  IF k = Len(inputs) THEN inputs[k][i].s
  ELSE inputs[k][i].s + SumAll(inputs, k + 1, i)

CombineAll(inputs) ==
  [i \in Patterns |->
     LET a == AndAll(inputs, 1, i)
     IN  IF a # {} THEN [b |-> a, s |-> SumAll(inputs, 1, i)]
         ELSE [b |-> OrAll(inputs, 1, i), s |-> SumAll(inputs, 1, i) + 1]]

\* C20: computeScoresFromArrays on k >= 1 inputs returns, for every pattern,
\* the intersection of all the input bitsets with the sum of the input
\* scores or, when that intersection is empty, the union of all the input
\* bitsets with the sum plus one.  Stated of the calls computeScoresForNode
\* makes: at every internal node, on the arrays of all its neighbours.
C20_CombineAll ==
  \A n \in InnerNodes(T) :
    LET inputs == ArraysFor(T, cache, n, GetNeighbors(T, n, fatherFirst))
    IN  ComputeScoresFromArrays(inputs, ZeroArr) = CombineAll(inputs)

\* The two descriptions agree on one or two inputs of non-empty bitsets.
CombineAllUpToTwo ==
  \A n \in InnerNodes(T) : \A k \in 1 .. 2 :
    LET all == ArraysFor(T, cache, n, GetNeighbors(T, n, fatherFirst))
        inputs == SubSeq(all, 1, k)
    IN  (\A j \in 1 .. k : \A i \in Patterns : inputs[j][i].b # {})
          => ComputeScoresFromArrays(inputs, ZeroArr) = CombineAll(inputs)


\* The instance self and all the instances below it.
RECURSIVE AllInstances(_)
AllInstances(self) ==
  {self} \cup
  UNION {UNION {AllInstances(self.mvTreeLikelihoods[d][k]) :
                  k \in 1 .. Len(self.mvTreeLikelihoods[d])} : d \in IdRange}

\* The expansion points of an instance: the nodes it holds sub-instances for.
ExpansionPoints(self) == {d \in IdRange : self.mvTreeLikelihoods[d] # <<>>}

RECURSIVE SumOfProbabilities(_)
SumOfProbabilities(vr) ==
  IF vr = <<>> THEN 0 ELSE GetProbability(Head(vr)) + SumOfProbabilities(Tail(vr))

\* C18: at every expansion point of every instance, the probabilities of the
\* sub-instances add up to getProbability() of the instance that owns them;
\* after construction and after every fireParameterChanged.
C18_WeightsAddUp ==
  \A x \in AllInstances(lik) : \A d \in ExpansionPoints(x) :
    SumOfProbabilities(x.mvTreeLikelihoods[d]) = GetProbability(x)

\* After a fireParameterChanged: a sub-instance of a probability strictly
\* between 0 and 1 owns sub-instances of different probabilities.
C18_Witness ==
  /\ last.op = "fireParameterChanged"
  /\ \E x \in AllInstances(lik) : \E d \in ExpansionPoints(x) :
       /\ ~x.main
       /\ GetProbability(x) \notin {0, One}
       /\ \E j, k \in 1 .. Len(x.mvTreeLikelihoods[d]) :
            GetProbability(x.mvTreeLikelihoods[d][j])
              # GetProbability(x.mvTreeLikelihoods[d][k])

\* C19: when computeSubtreeLikelihood reaches an expansion point of an
\* instance of probability 0, the array of the node is left zero, none of the
\* sub-instances there is asked to compute, no division by zero is made (no
\* array holds its result) and no error is raised.
C19_ZeroSkipped ==
  last.op \in {"fireParameterChanged", "computeTreeLikelihood"} =>
    /\ last.res = "ok"
    /\ \A x \in AllInstances(lik) :
         /\ \A d \in IdRange : x.likelihoods[d] # NaN
         /\ (x.asked /\ GetProbability(x) = 0) =>
              \A d \in ExpansionPoints(x) :
                /\ x.likelihoods[d] = 0
                /\ \A k \in 1 .. Len(x.mvTreeLikelihoods[d]) :
                     ~x.mvTreeLikelihoods[d][k].asked

\* A parameter change gave an instance the probability 0: it was asked to
\* compute, its expansion point holds zero, and its sub-instances still hold
\* what they computed before the change.
C19_Witness ==
  /\ last.op = "fireParameterChanged"
  /\ \E x \in AllInstances(lik) : \E d \in ExpansionPoints(x) :
       /\ x.asked /\ GetProbability(x) = 0
       /\ x.likelihoods[d] = 0
       /\ Len(x.mvTreeLikelihoods[d]) >= 2
       /\ \E k \in 1 .. Len(x.mvTreeLikelihoods[d]) :
            /\ x.mvTreeLikelihoods[d][k].likelihoods[d] > 0
            /\ ~x.mvTreeLikelihoods[d][k].asked


\* The ways of listing n inputs in another order.
Orders(n) ==
  {p \in [1 .. n -> 1 .. n] : \A i, j \in 1 .. n : p[i] = p[j] => i = j}

Permuted(inputs, p) == [k \in 1 .. Len(inputs) |-> inputs[p[k]]]

ScoresOf(arr) == [i \in 1 .. Len(arr) |-> arr[i].s]

\* C21: the score computeScoresFromArrays returns for a pattern does not
\* depend on the order of the inputs, their bitsets being non-empty.  Stated
\* of the inputs computeScoresForNode passes: the arrays of all the
\* neighbours of an internal node, listed in any order.
C21_OrderIndependent ==
  \A n \in InnerNodes(T) :
    LET inputs == ArraysFor(T, cache, n, GetNeighbors(T, n, fatherFirst))
        given == ScoresOf(ComputeScoresFromArrays(inputs, ZeroArr))
    IN  (\A k \in 1 .. Len(inputs) : \A i \in Patterns : inputs[k][i].b # {})
          => \A p \in Orders(Len(inputs)) :
               ScoresOf(ComputeScoresFromArrays(Permuted(inputs, p), ZeroArr)) = given

\* The same holds of the lists of at most three inputs.
OrderIndependentUpToThree ==
  \A n \in InnerNodes(T) :
    LET all == ArraysFor(T, cache, n, GetNeighbors(T, n, fatherFirst))
        inputs == SubSeq(all, 1, IF Len(all) > 3 THEN 3 ELSE Len(all))
        given == ScoresOf(ComputeScoresFromArrays(inputs, ZeroArr))
    IN  (\A k \in 1 .. Len(inputs) : \A i \in Patterns : inputs[k][i].b # {})
          => \A p \in Orders(Len(inputs)) :
               ScoresOf(ComputeScoresFromArrays(Permuted(inputs, p), ZeroArr)) = given


\* Arrays no computation yields: a state that does not exist, score 1.
PoisonArr == [i \in Patterns |-> [b |-> {NbStates}, s |-> 1]]
PoisonCache == [i \in IdRange |-> [j \in IdRange |-> PoisonArr]]

\* The entries of the cache computeScores() is to fill: of every internal
\* node toward each of its neighbours.
Edges(t) ==
  {<<t.id[n], t.id[x]>> : n \in InnerNodes(t), x \in TreeNodes(t)} \cap
  {e \in IdRange \X IdRange :
     \E n \in InnerNodes(t) : \E x \in Range(GetNeighbors(t, n, FALSE)) :
       e = <<t.id[n], t.id[x]>>}

OnEdges(t, c) == [e \in Edges(t) |-> c[e[1]][e[2]]]

\* C22: within one computeScores() the post-order pass comes first, then the
\* pre-order pass, then the root total, and every array a step reads was
\* written earlier in the same call: nothing left from before the call is
\* read, so the arrays and the root total are what the call yields from a
\* cache filled with arrays no computation produces.
C22_NoStaleRead ==
  last.op = "computeScores" =>
    LET r == ComputeScores(T, PoisonCache, PoisonArr)
    IN  /\ OnEdges(T, cache) = OnEdges(T, r.cache)
        /\ rootArr = r.rootArr

\* computeScores() ran after a doNNI: the cache it started from held arrays
\* of the previous tree, some of which are still there, off the edges.
C22_Witness ==
  /\ last.op = "computeScores" /\ chain.stage = "recomputed"
  /\ \E i, j \in IdRange : <<i, j>> \notin Edges(T) /\ cache[i][j] # ZeroArr


\* C23: in any tree and for any node id, testNNI and doNNI find the same
\* nodes or throw the same exception, so they select the same uncle; and
\* whenever grandFather has two sons or more, both succeed on a node whose
\* parent has a father, and the uncle is the son of grandFather at position
\* 1 when parent is at position 0 and at the position just before parent's
\* otherwise, a valid position that is not parent's.
C23_SameUncle ==
  \A nodeId \in IdRange :
    LET x == NNINodes(T, nodeId)
        y == DoNNINodes(T, nodeId)
        son == SearchFirstNodeWithId(T, nodeId)
    IN  /\ x = y
        /\ (/\ son # Null /\ HasFather(T, son) /\ HasFather(T, father[son])
            /\ GetNumberOfSons(T, father[father[son]]) >= 2)
           => LET g == father[father[son]]
                  pp == GetSonPosition(T, g, father[son])
                  up == IF pp = 0 THEN 1 ELSE pp - 1
              IN  /\ y.res = "ok"
                  /\ up < GetNumberOfSons(T, g) /\ up # pp
                  /\ y.uncle = GetSon(T, g, up)
                  /\ father[y.uncle] = g /\ y.uncle # father[son]

\* testNNI then doNNI of one node went through with parent at position 2 or
\* more: the node is now the last son of grandFather, which keeps an
\* internal son at position 1 or more, the uncle before it having left.
C23_Witness ==
  /\ chain.stage = "done" /\ last.op = "doNNI" /\ last.res = "ok"
  /\ LET son == SearchFirstNodeWithId(T, last.arg)
         g == father[son]
     IN  /\ GetSonPosition(T, g, son) = GetNumberOfSons(T, g) - 1
         /\ \E k \in 1 .. GetNumberOfSons(T, g) - 2 : ~IsLeaf(T, GetSon(T, g, k))


\* doNNI on the id of the uncle that x moved under parent, in tree t1, gives
\* every node the father it has in tree t0.
UndoneFrom(t0, t1, x) ==
  LET y == DoNNINodes(t1, t1.id[x.uncle])
  IN  /\ y.res = "ok"
      /\ DoNNISwap(t1, y).father = t0.father

\* C24 as stated: in any tree, bifurcating or multifurcating, and for any id
\* doNNI accepts, doNNI(id) followed by doNNI on the id of the uncle the
\* first call moved under parent gives every node the father it had before
\* the first call.
C24_Undone ==
  [][(last'.op = "doNNI" /\ last'.res = "ok")
       => UndoneFrom(T, T', DoNNINodes(T, last'.arg))]_vars

\* C24, amended: the same when grandFather has exactly two sons; with three
\* or more the second call takes another uncle than the node the first
\* call moved up.
C24_UndoneBifurcating ==
  [][(/\ last'.op = "doNNI" /\ last'.res = "ok"
      /\ GetNumberOfSons(T, DoNNINodes(T, last'.arg).grandFather) = 2)
       => UndoneFrom(T, T', DoNNINodes(T, last'.arg))]_vars

\* doNNI went through under a grandFather with two sons: the node is now its
\* second son, the first one is the parent, whose last son is the uncle, on
\* which doNNI is accepted and moves the node back.
C24_Witness ==
  /\ last.op = "doNNI" /\ last.res = "ok"
  /\ LET son == SearchFirstNodeWithId(T, last.arg)
         g == father[son]
     IN  /\ GetNumberOfSons(T, g) = 2 /\ GetSon(T, g, 1) = son
         /\ LET parent == GetSon(T, g, 0)
                n == GetNumberOfSons(T, parent)
            IN  /\ n >= 2
                /\ LET y == DoNNINodes(T, id[GetSon(T, parent, n - 1)])
                   IN  y.res = "ok" /\ y.uncle = son /\ y.parent = parent


\* The cross-product of the components hn keeps of the models of flagged:
\* every way of keeping one component of each, the other models as in hn.
CrossProduct(hn, flagged) ==
  {[m \in Models |-> IF m \in flagged THEN <<f[m]>> ELSE hn.nodes[m]] :
     f \in {g \in [Models -> Comps] :
              \A m \in Models : IF m \in flagged THEN g[m] \in Range(hn.nodes[m])
                                ELSE g[m] = 1}}

RECURSIVE ProductOfSizes(_, _, _)
ProductOfSizes(hn, flagged, m) ==
  IF m > NbModels THEN 1
  ELSE (IF m \in flagged THEN Len(hn.nodes[m]) ELSE 1)
         * ProductOfSizes(hn, flagged, m + 1)

\* C25: at every node D where init() of an instance registered
\* sub-instances, there is exactly one of them for each element of the
\* cross-product of the components the instance keeps of the models flagged
\* at D, none missing and none twice, as many as the product of the sizes;
\* each has upperNode D and the HyperNode of the instance but for the
\* flagged models, each restricted to the one component of the combination.
C25_CrossProduct ==
  \A x \in AllInstances(lik) : \A d \in ExpansionPoints(x) :
    ~x.main =>
      LET vr == x.mvTreeLikelihoods[d]
          flagged == Range(ExpandedModels(T, modelSet, x.hyperNode, GetSonsId(T, d)))
          made == {vr[k].hyperNode.nodes : k \in 1 .. Len(vr)}
      IN  /\ flagged # {}
          /\ made = CrossProduct(x.hyperNode, flagged)
          /\ Len(vr) = Cardinality(made)
          /\ Len(vr) = ProductOfSizes(x.hyperNode, flagged, 1)
          /\ \A k \in 1 .. Len(vr) : vr[k].upperNode = d

\* An instance kept several components of two models, both flagged at one
\* node: it holds there a sub-instance for each pair of components.
C25_Witness ==
  \E x \in AllInstances(lik) : \E d \in ExpansionPoints(x) :
    /\ ~x.main
    /\ Cardinality(Range(ExpandedModels(T, modelSet, x.hyperNode, GetSonsId(T, d)))) = 2
    /\ Len(x.mvTreeLikelihoods[d]) = NbComp * NbComp


\* The ids of the nodes strictly above the node n of tree t.
RECURSIVE StrictAncestorIds(_, _)
StrictAncestorIds(t, n) ==
  IF ~HasFather(t, n) THEN {}
  ELSE {t.id[t.father[n]]} \cup StrictAncestorIds(t, t.father[n])

\* Some model the instance x keeps several components of is flagged at the
\* node of id d.
FlaggedAt(x, d) ==
  ExpandedModels(T, modelSet, x.hyperNode, GetSonsId(T, d)) # <<>>

\* The ids on the path from the upper node of x down to the father of the
\* node of id d, d being in the subtree of the upper node.
PathAbove(x, d) ==
  StrictAncestorIds(T, SearchFirstNodeWithId(T, d)) \cap SubtreeIds(T, x.upperNode)

\* C26: within one instance, the nodes where init() registered sub-instances
\* are exactly the shallowest flagged nodes of the subtree of upperNode: a
\* node D is one iff some model is flagged at D and none is flagged at any
\* node of the path from upperNode to the father of D.  So none is a strict
\* descendant of another: nothing below an expansion point was explored.
C26_Shallowest ==
  \A x \in AllInstances(lik) :
    ~x.main =>
      /\ ExpansionPoints(x) =
           {d \in SubtreeIds(T, x.upperNode) :
              FlaggedAt(x, d) /\ \A a \in PathAbove(x, d) : ~FlaggedAt(x, a)}
      /\ \A d, e \in ExpansionPoints(x) :
           e \notin StrictAncestorIds(T, SearchFirstNodeWithId(T, d))

\* An instance registered sub-instances at a node while a model it keeps
\* several components of is flagged at a node below as well, where it
\* registered nothing.
C26_Witness ==
  \E x \in AllInstances(lik) : \E d \in ExpansionPoints(x) :
    /\ ~x.main
    /\ \E e \in SubtreeIds(T, d) \ {d} :
         FlaggedAt(x, e) /\ e \notin ExpansionPoints(x)


\* The nodes the exploration of init() reached in the instance x: those of
\* the subtree of upperNode with no flagged node above them in it.
Visited(x) ==
  {d \in SubtreeIds(T, x.upperNode) : \A a \in PathAbove(x, d) : ~FlaggedAt(x, a)}

\* The sons of the node of id d whose subtree, the son included, holds a
\* node the model set assigns to model m.
SonSubtreesWith(m, d) ==
  {s \in Range(GetSonsId(T, d)) :
     SubtreeIds(T, s) \cap modelSet.nodesWithModel[m] # {}}

\* init() of x treated model m as to expand at d: sub-instances are
\* registered there, each keeping one component of m.
ExpandedAt(x, m, d) ==
  /\ d \in ExpansionPoints(x)
  /\ \A k \in 1 .. Len(x.mvTreeLikelihoods[d]) :
       Len(x.mvTreeLikelihoods[d][k].hyperNode.nodes[m]) = 1

\* C27 as stated: a model the instance keeps several components of is
\* flagged at D exactly when its nodes lie in more than one of the
\* son-subtrees of D, or at D itself and in a son-subtree.
C27_FlagAtD ==
  \A x \in AllInstances(lik) : \A d \in Visited(x) : \A m \in Models :
    (~x.main /\ Len(x.hyperNode.nodes[m]) > 1) =>
      (ExpandedAt(x, m, d) <=>
         \/ Cardinality(SonSubtreesWith(m, d)) >= 2
         \/ /\ d \in modelSet.nodesWithModel[m]
            /\ SonSubtreesWith(m, d) # {})

\* C27, amended: a model the instance keeps several components of is flagged
\* at D exactly when its nodes lie in more than one of the son-subtrees of
\* D, or at a son of D and strictly below that son; whether D itself is a
\* node of the model does not count.
C27_FlagAtSon ==
  \A x \in AllInstances(lik) : \A d \in Visited(x) : \A m \in Models :
    (~x.main /\ Len(x.hyperNode.nodes[m]) > 1) =>
      (ExpandedAt(x, m, d) <=>
         \/ Cardinality(SonSubtreesWith(m, d)) >= 2
         \/ \E s \in Range(GetSonsId(T, d)) :
              /\ s \in modelSet.nodesWithModel[m]
              /\ (SubtreeIds(T, s) \ {s}) \cap modelSet.nodesWithModel[m] # {})

\* A model was expanded at a node though its nodes all lie in one
\* son-subtree, at the son and below it, while the other model, spread over
\* the other son-subtrees, was expanded there too.
C27_Witness ==
  \E x \in AllInstances(lik) : \E d \in Visited(x) : \E m, m2 \in Models :
    /\ ~x.main /\ Len(x.hyperNode.nodes[m]) > 1 /\ Len(x.hyperNode.nodes[m2]) > 1
    /\ ExpandedAt(x, m, d)
    /\ Cardinality(SonSubtreesWith(m, d)) = 1
    /\ ExpandedAt(x, m2, d)
    /\ Cardinality(SonSubtreesWith(m2, d)) >= 2


\* The height of the tree: the most father links from a node up to the root.
Height(t) ==
  LET depth(n) == Cardinality(StrictAncestorIds(t, n))
  IN  CHOOSE h \in 0 .. MaxNodes :
        /\ \A n \in TreeNodes(t) : depth(n) <= h
        /\ \E n \in TreeNodes(t) : depth(n) = h

\* The sub-instances an instance holds, at all its expansion points.
SubInstances(x) ==
  UNION {{x.mvTreeLikelihoods[d][k] : k \in 1 .. Len(x.mvTreeLikelihoods[d])} :
           d \in IdRange}

\* How many levels of sub-instances an instance holds below itself.
RECURSIVE NestingDepth(_)
NestingDepth(x) ==
  IF SubInstances(x) = {} THEN 0
  ELSE LET below == {NestingDepth(y) : y \in SubInstances(x)}
       IN  1 + CHOOSE h \in below : \A g \in below : g <= h

\* C28: the construction ends.  A sub-instance that init() created at a node
\* D registers no sub-instance at D: it keeps exactly one component of every
\* model flagged at D and no model it keeps several components of is flagged
\* at D; its own expansion points are strict descendants of D; and the
\* levels of sub-instances init() nests do not exceed the height of the tree.
C28_Terminates ==
  /\ \A x \in AllInstances(lik) : \A d \in ExpansionPoints(x) :
       ~x.main =>
         \A k \in 1 .. Len(x.mvTreeLikelihoods[d]) :
           LET y == x.mvTreeLikelihoods[d][k]
           IN  /\ y.upperNode = d
               /\ d \notin ExpansionPoints(y)
               /\ ~FlaggedAt(y, d)
               /\ \A m \in Range(ExpandedModels(T, modelSet, x.hyperNode,
                                                GetSonsId(T, d))) :
                    Len(y.hyperNode.nodes[m]) = 1
               /\ ExpansionPoints(y) \subseteq SubtreeIds(T, d) \ {d}
  /\ \A x \in SubInstances(lik) : NestingDepth(x) <= Height(T)

\* A sub-instance that init() created at a node holds sub-instances of its
\* own, at a node strictly below.
C28_Witness ==
  \E x \in AllInstances(lik) : \E d \in ExpansionPoints(x) :
    /\ ~x.main
    /\ \E k \in 1 .. Len(x.mvTreeLikelihoods[d]) :
         /\ ExpansionPoints(x.mvTreeLikelihoods[d][k]) # {}
         /\ NestingDepth(x) = Height(T)


\* C29: after fireParameterChanged on the main instance, the probability of
\* every sub-instance, at every nesting depth, is the probability the model
\* set gives its HyperNode under the new values; and they were set before
\* the tree likelihood was recomputed: the arrays held are those a
\* recomputation with the probabilities now in place yields.
C29_ProbabilitiesCurrent ==
  last.op = "fireParameterChanged" =>
    /\ \A x \in AllInstances(lik) : \A y \in SubInstances(x) :
         GetProbability(y) = GetHyperNodeProbability(modelSet, y.hyperNode)
    /\ ClearAsked(ComputeTreeLikelihood(T, modelSet, ClearAsked(lik)))
         = ClearAsked(lik)

\* fireParameterChanged returned, and a sub-instance two levels below the
\* main instance, of a probability strictly between 0 and 1, holds
\* sub-instances of its own, each of a share of that probability.
C29_Witness ==
  /\ last.op = "fireParameterChanged"
  /\ \E x \in SubInstances(lik) : \E y \in SubInstances(x) :
       /\ GetProbability(y) \notin {0, One}
       /\ SubInstances(y) # {}
       /\ \E z \in SubInstances(y) : GetProbability(z) \notin {0, GetProbability(y)}


\* The ids of the nodes the walk for a variable may look at in the instance
\* x: from the father of the node owning the parameter (from the root for
\* the main instance and for the parameters of the root branch) up the
\* father links, no further than upperNode.
WalkIds(x, variable) ==
  LET owner == SearchFirstNodeWithId(T, variable.branch)
      fromRoot == x.main \/ variable.name \in {"BrLenRoot", "RootPosition"}
      path == IF fromRoot THEN {id[root]}
              ELSE IF HasFather(T, owner) THEN StrictAncestorIds(T, owner) ELSE {}
  IN  IF x.upperNode \in path THEN path \cap SubtreeIds(T, x.upperNode) ELSE path

\* The first expansion points of x on the walk: those with every other one
\* on the walk above them.
FirstExpansionPoints(x, variable) ==
  LET met == WalkIds(x, variable) \cap ExpansionPoints(x)
  IN  {d \in met :
         \A e \in met \ {d} : e \in StrictAncestorIds(T, SearchFirstNodeWithId(T, d))}

\* The term r is what the claim says of the call on instance x: the plain
\* computation when the walk meets no expansion point, else at the first
\* one met the sum, over all the sub-instances there, of what the same call
\* yields on each, weighted by its probability over that of x.  When
\* zeroSkips, an instance of probability 0 instead leaves the array zero and
\* asks none of its sub-instances.
RECURSIVE AsClaimed(_, _, _, _)
AsClaimed(x, variable, r, zeroSkips) ==
  LET firsts == FirstExpansionPoints(x, variable)
  IN  /\ r.steps <= Height(T) + 1
      /\ IF firsts = {} THEN r.kind = "plain"
         ELSE /\ r.kind = "mixture" /\ r.node \in firsts
              /\ IF zeroSkips /\ GetProbability(x) = 0
                 THEN ~r.summed /\ r.terms = <<>>
                 ELSE LET vr == x.mvTreeLikelihoods[r.node]
                      IN  /\ r.summed /\ Len(r.terms) = Len(vr)
                          /\ \A k \in 1 .. Len(vr) :
                               /\ k \in DOMAIN r.terms
                               /\ r.terms[k].weight = GetProbability(vr[k])
                               /\ r.terms[k].total = GetProbability(x)
                               /\ AsClaimed(vr[k], variable, r.terms[k].of, zeroSkips)

DerivativeOps == {"computeTreeDLikelihood", "computeTreeD2Likelihood"}

\* C30 as stated: both derivative computations walk up the father links from
\* the node owning the parameter; at the first expansion point of the
\* instance met they take the probability-weighted sum of the arrays of
\* every sub-instance there, each computed by the same call; meeting none up
\* to upperNode or the top they hand over to the plain computation; the walk
\* ends, and both orders pick the same nodes for the same variable.
C30_Walk ==
  last.op \in DerivativeOps =>
    /\ AsClaimed(lik, last.arg, last.val, FALSE)
    /\ ComputeTreeDLikelihood(T, lik, last.arg)
         = ComputeTreeD2Likelihood(T, lik, last.arg)

\* C30, amended: the same, but for an instance whose own probability is 0:
\* at the expansion point its walk finds, it sets the array to zero and
\* calls none of its sub-instances.
C30_WalkZeroSkipped ==
  last.op \in DerivativeOps =>
    /\ AsClaimed(lik, last.arg, last.val, TRUE)
    /\ ComputeTreeDLikelihood(T, lik, last.arg)
         = ComputeTreeD2Likelihood(T, lik, last.arg)

\* The terms of the calls made on sub-instances, at any depth.
RECURSIVE TermsBelow(_)
TermsBelow(r) ==
  {r} \cup UNION {TermsBelow(r.terms[k].of) : k \in 1 .. Len(r.terms)}

\* A derivative with respect to a branch length was computed, and among the
\* calls made: one whose walk went up more than one node to its expansion
\* point, one that met none and used the plain computation, and one on an
\* instance of probability 0 that found an expansion point and skipped it.
C30_Witness ==
  /\ last.op \in DerivativeOps /\ last.arg.name = "BrLen"
  /\ \E r \in TermsBelow(last.val) : r.kind = "mixture" /\ r.steps >= 2
  /\ \E r \in TermsBelow(last.val) : r.kind = "plain"
  /\ \E r \in TermsBelow(last.val) : r.kind = "mixture" /\ ~r.summed

=============================================================================
